---- MODULE Spec2Model ----
(***************************************************************************)
(* Index + Search subsystem of the multi-SDK documentation server.         *)
(*                                                                         *)
(* Text (paths, display names, SDK identifiers, document lines) is a       *)
(* sequence of one-character strings, so that replace / endswith / sorted  *)
(* / substring search are computed as the code computes them.  Names of    *)
(* classes and functions in a parsed file are TLA+ strings.  A Python dict *)
(* is a function whose DOMAIN is its key set; a missing key is a value     *)
(* outside the DOMAIN.  An Optional result is <<>> (None) or <<v>>.        *)
(***************************************************************************)
EXTENDS Integers, Sequences, FiniteSets, TLC

VARIABLES
    indices,     \* SDKIndexer.indices: sdk_id -> index
    index_dir,   \* the "indices" directory: file name -> persisted record
    data_dir,    \* the "data" directory: sdk_id -> (display name -> source file)
    tree,        \* the cached source tree of each SDK: sdk_id -> set of files
    registry,    \* SDKRegistry.sdks: the configured SDK identifiers, in order
    pc,          \* position of each SDK's initialisation task
    build,       \* index_sdk's local variables, per running call
    observed,    \* the latest get_index call: <<sdk_id, Optional index, made during a build of sdk_id>>
    probe        \* input and output of the operation applied by the small specifications

vars == <<indices, index_dir, data_dir, tree, registry, pc, build, observed, probe>>

(***************************************************************************)
(* Text helpers                                                            *)
(***************************************************************************)

\* the characters used, in code-point order (as str comparison orders them)
Chars == <<"*", ".", "/", "\\", "_", "a", "b", "c", "d", "k", "m", "n", "p", "s", "t", "x", "y">>

Ord(c) == CHOOSE i \in DOMAIN Chars : Chars[i] = c

\* Python's str < str
RECURSIVE StrLess(_, _)
StrLess(a, b) ==
    IF b = <<>> THEN FALSE
    ELSE IF a = <<>> THEN TRUE
    ELSE IF Head(a) # Head(b) THEN Ord(Head(a)) < Ord(Head(b))
    ELSE StrLess(Tail(a), Tail(b))

\* str.replace(old, new) for a one-character old
Replace(s, old, new) == [i \in DOMAIN s |-> IF s[i] = old THEN new ELSE s[i]]

\* str.endswith
EndsWith(s, suffix) ==
    /\ Len(s) >= Len(suffix)
    /\ SubSeq(s, Len(s) - Len(suffix) + 1, Len(s)) = suffix

\* str.split("/"): the components of a path
RECURSIVE SplitAt(_, _, _)
SplitAt(s, sep, cur) ==
    IF s = <<>> THEN <<cur>>
    ELSE IF Head(s) = sep THEN <<cur>> \o SplitAt(Tail(s), sep, <<>>)
    ELSE SplitAt(Tail(s), sep, Append(cur, Head(s)))

Parts(p) == SplitAt(p, "/", <<>>)

\* list < list over path components: how pathlib orders two paths
RECURSIVE PartsLess(_, _)
PartsLess(a, b) ==
    IF b = <<>> THEN FALSE
    ELSE IF a = <<>> THEN TRUE
    ELSE IF Head(a) # Head(b) THEN StrLess(Head(a), Head(b))
    ELSE PartsLess(Tail(a), Tail(b))

\* dict helpers
EmptyDict == <<>>
Put(d, k, v) == [x \in (DOMAIN d) \cup {k} |-> IF x = k THEN v ELSE d[x]]
Get(d, k, default) == IF k \in DOMAIN d THEN d[k] ELSE default

(***************************************************************************)
(* Source files.  A file carries what the indexer reads from it: whether   *)
(* it can be read, its size and line count, and its syntax tree (or the    *)
(* fact that it does not parse).  A syntax node is a record with a kind,   *)
(* a line number and a body of child nodes.                                *)
(***************************************************************************)

Def(name, line, body) ==
    [kind |-> "FunctionDef", name |-> name, lineno |-> line, body |-> body]
AsyncDef(name, line, body) ==
    [kind |-> "AsyncFunctionDef", name |-> name, lineno |-> line, body |-> body]
Class(name, line, bases, body) ==
    [kind |-> "ClassDef", name |-> name, lineno |-> line, bases |-> bases, body |-> body]
Import(names, line) ==
    [kind |-> "Import", names |-> names, lineno |-> line, body |-> <<>>]
ImportFrom(module, names, line) ==
    [kind |-> "ImportFrom", module |-> module, names |-> names, lineno |-> line, body |-> <<>>]
Module(body) == [kind |-> "Module", body |-> body]

\* base-class expressions
NameExpr(id) == [kind |-> "Name", id |-> id]
AttrExpr(value, attr) == [kind |-> "Attribute", value |-> value, attr |-> attr]
CallExpr == [kind |-> "Call"]

\* a/b.py
\*    1 import os
\*    2 from x import y
\*    3 class Widget(Base):
\*    5     def run(self): ...
\*    7     class Inner(m.B):
\*    8         def deep(self): ...
\*    9     async def arun(self): ...
\*   20 async def helper(): ...
\*   30 def top():
\*   31     def nested(): ...
FileAB ==
    [relative_path |-> <<"a", "/", "b", ".", "p", "y">>, readable |-> TRUE,
     size |-> 300, lines |-> 32, parses |-> TRUE,
     tree |-> Module(<<
        Import(<<"os">>, 1),
        ImportFrom("x", <<"y">>, 2),
        Class("Widget", 3, <<NameExpr("Base")>>, <<
            Def("run", 5, <<>>),
            Class("Inner", 7, <<AttrExpr(NameExpr("m"), "B")>>, <<Def("deep", 8, <<>>)>>),
            AsyncDef("arun", 9, <<>>) >>),
        AsyncDef("helper", 20, <<>>),
        Def("top", 30, <<Def("nested", 31, <<>>)>>) >>)]

\* a_b.py
\*    2 class Widget(f()):
\*    3     def stop(self): ...
\*    4 def top(): ...
FileA_B ==
    [relative_path |-> <<"a", "_", "b", ".", "p", "y">>, readable |-> TRUE,
     size |-> 60, lines |-> 5, parses |-> TRUE,
     tree |-> Module(<<
        Class("Widget", 2, <<CallExpr>>, <<Def("stop", 3, <<>>)>>),
        Def("top", 4, <<>>) >>)]

\* c.py: not valid Python (ast.parse raises SyntaxError)
FileC ==
    [relative_path |-> <<"c", ".", "p", "y">>, readable |-> TRUE,
     size |-> 10, lines |-> 2, parses |-> FALSE, tree |-> Module(<<>>)]

\* d.py: read_text raises OSError
FileD ==
    [relative_path |-> <<"d", ".", "p", "y">>, readable |-> FALSE,
     size |-> 0, lines |-> 0, parses |-> FALSE, tree |-> Module(<<>>)]

\* n.txt: readable text that no "*.py" pattern selects
\*    1 class Gone: ...
FileTxt ==
    [relative_path |-> <<"n", ".", "t", "x", "t">>, readable |-> TRUE,
     size |-> 12, lines |-> 1, parses |-> TRUE,
     tree |-> Module(<<Class("Gone", 1, <<>>, <<>>)>>)]

\* the contents a download can leave under an SDK's source root
TreeVersions == { {FileAB, FileC, FileD, FileTxt}, {FileAB, FileA_B}, {FileA_B, FileTxt} }

(***************************************************************************)
(* Structural extractor                                                    *)
(***************************************************************************)

\* ast.walk: breadth-first, a node before its children
RECURSIVE Walk(_)
Walk(queue) ==
    IF queue = <<>> THEN <<>>
    ELSE <<Head(queue)>> \o Walk(Tail(queue) \o Head(queue).body)

\* [f(x) for x in seq if keep(x)]
Comprehend(seq, keep(_), f(_)) ==
    LET kept == SelectSeq(seq, keep) IN [i \in DOMAIN kept |-> f(kept[i])]

\* isinstance(node, ast.FunctionDef): ast.AsyncFunctionDef is not a subclass of it
IsFunctionDef(node) == node.kind = "FunctionDef"
IsAsyncFunctionDef(node) == node.kind = "AsyncFunctionDef"
IsClassDef(node) == node.kind = "ClassDef"

RECURSIVE _get_name(_)
_get_name(node) ==
    IF node.kind = "Name" THEN node.id
    ELSE IF node.kind = "Attribute" THEN _get_name(node.value) \o "." \o node.attr
    ELSE "Unknown"

MethodInfo(item) == [name |-> item.name, line |-> item.lineno]

ClassInfo(node) ==
    [name |-> node.name,
     line |-> node.lineno,
     methods |-> Comprehend(node.body, IsFunctionDef, MethodInfo),
     bases |-> [i \in DOMAIN node.bases |-> _get_name(node.bases[i])]]

_extract_classes(tree_) == Comprehend(Walk(<<tree_>>), IsClassDef, ClassInfo)

\* getattr(node, '_parent', None): <<>> when the node has no such attribute
ParentOf(node) == IF "_parent" \in DOMAIN node THEN <<node["_parent"]>> ELSE <<>>

IsTopLevel(node) ==
    LET parent == ParentOf(node) IN parent = <<>> \/ parent[1].kind = "Module"

FunctionInfo(node) ==
    [name |-> node.name, line |-> node.lineno, async |-> IsAsyncFunctionDef(node)]

CollectedFunction(node) == IsFunctionDef(node) /\ IsTopLevel(node)

_extract_functions(tree_) == Comprehend(Walk(<<tree_>>), CollectedFunction, FunctionInfo)

RECURSIVE Concat(_)
Concat(seqs) == IF seqs = <<>> THEN <<>> ELSE Head(seqs) \o Concat(Tail(seqs))

ImportNames(node) ==
    IF node.kind = "Import" THEN node.names
    ELSE [i \in DOMAIN node.names |-> node.module \o "." \o node.names[i]]

IsImport(node) == node.kind \in {"Import", "ImportFrom"}

_extract_imports(tree_) == Concat(Comprehend(Walk(<<tree_>>), IsImport, ImportNames))

(***************************************************************************)
(* Registry: the configured SDKs                                           *)
(***************************************************************************)

\* the configuration files considered: two SDKs "s" and "t", or one SDK whose
\* key in sdks.yaml is the empty string
Registries == { << <<"s">>, <<"t">> >>, << <<>> >> }

\* registry.list_sdks(), as a set
SdkIds == {registry[i] : i \in DOMAIN registry}

PyGlob == <<"*", "*", "/", "*", ".", "p", "y">>      \* "**/*.py"
AnyGlob == <<"*", "*", "/", "*">>                     \* "**/*"

\* registry.get_sdk(sdk_id)
SdkConfig(sdk_id) ==
    IF sdk_id = <<"s">>
    THEN [name |-> "S", description |-> "first",
          source |-> [type |-> "github"], tools |-> [prefix |-> "s", descriptions |-> EmptyDict],
          concepts |-> [agent |-> <<"Widget", "top", "helper">>, Inner |-> <<"Widget">>]]
    ELSE IF sdk_id = <<>>
    THEN [name |-> "E", description |-> "unnamed",
          source |-> [type |-> "github"], tools |-> [prefix |-> "e", descriptions |-> EmptyDict]]
    ELSE IF sdk_id = <<"x">>
    THEN [name |-> "X", description |-> "third",
          source |-> [type |-> "svn"], tools |-> [prefix |-> "x", descriptions |-> EmptyDict]]
    ELSE [name |-> "T", description |-> "second",
          source |-> [type |-> "url"], tools |-> [prefix |-> "t", descriptions |-> EmptyDict],
          file_patterns |-> <<AnyGlob, PyGlob>>,
          exclude_patterns |-> << <<"*", "c", ".", "p", "y">>, <<"k", "/", "t", "/", "d", ".", "p", "y">> >>]

\* where provider.download leaves the SDK's source tree
SourcePath(sdk_id) == <<"k", "/">> \o sdk_id

OriginalPath(sdk_id, file) == SourcePath(sdk_id) \o <<"/">> \o file.relative_path

(***************************************************************************)
(* File selector                                                           *)
(***************************************************************************)

\* Path.glob for the recursive patterns "**/*<suffix>": every file, at any
\* depth, whose name ends with the suffix
GlobMatches(pattern, relative_path) ==
    /\ Len(pattern) >= 4
    /\ SubSeq(pattern, 1, 4) = AnyGlob
    /\ LET parts == Parts(relative_path)
       IN EndsWith(parts[Len(parts)], SubSeq(pattern, 5, Len(pattern)))

Glob(files, pattern) == {f \in files : GlobMatches(pattern, f.relative_path)}

\* fnmatch.fnmatch for the patterns "*<literal>" and "<literal>"
FnMatch(name, pattern) ==
    IF pattern # <<>> /\ Head(pattern) = "*"
    THEN EndsWith(name, Tail(pattern))
    ELSE name = pattern

_should_exclude(sdk_id, file, exclude_patterns) ==
    \E i \in DOMAIN exclude_patterns :
        \/ FnMatch(file.relative_path, exclude_patterns[i])
        \/ FnMatch(OriginalPath(sdk_id, file), exclude_patterns[i])

\* sorted(set(all_files)): pathlib orders paths component by component
RECURSIVE SortedFiles(_, _)
SortedFiles(sdk_id, files) ==
    IF files = {} THEN <<>>
    ELSE LET key(f) == Parts(OriginalPath(sdk_id, f))
             first == CHOOSE f \in files : \A g \in files \ {f} : PartsLess(key(f), key(g))
         IN <<first>> \o SortedFiles(sdk_id, files \ {first})

\* lines 32-41: the files the loop visits, in order
AllFiles(sdk_id, config, files) ==
    LET file_patterns == Get(config, "file_patterns", <<PyGlob>>)
    IN SortedFiles(sdk_id, UNION {Glob(files, file_patterns[i]) : i \in DOMAIN file_patterns})

(***************************************************************************)
(* SDK index builder                                                       *)
(***************************************************************************)

_generate_saved_name(relative_path, sdk_id) ==
    LET flat == Replace(Replace(relative_path, "/", "_"), "\\", "_")
        name == IF EndsWith(flat, <<".", "p", "y">>) THEN SubSeq(flat, 1, Len(flat) - 3) ELSE flat
    IN sdk_id \o <<"_">> \o name \o <<".", "m", "d">>

\* a variant that treats a read error as it treats a syntax error: the file
\* keeps its basic information and nothing is raised
_analyze_file_KeepingUnreadable(sdk_id, file) ==
    [raised |-> FALSE,
     file_info |->
        [relative_path |-> file.relative_path,
         original_path |-> OriginalPath(sdk_id, file),
         classes |-> <<>>, functions |-> <<>>, imports |-> <<>>,
         size |-> file.size,
         lines |-> file.lines]]

\* _analyze_file: raises when the file cannot be read; a file that does not
\* parse keeps its basic information only
_analyze_file(sdk_id, file) ==
    [raised |-> ~file.readable,
     file_info |->
        [relative_path |-> file.relative_path,
         original_path |-> OriginalPath(sdk_id, file),
         classes |-> IF file.parses THEN _extract_classes(file.tree) ELSE <<>>,
         functions |-> IF file.parses THEN _extract_functions(file.tree) ELSE <<>>,
         imports |-> IF file.parses THEN _extract_imports(file.tree) ELSE <<>>,
         size |-> file.size,
         lines |-> file.lines]]

\* lines 19-29
NewIndex(sdk_id, config) ==
    [sdk_id |-> sdk_id,
     name |-> Get(config, "name", sdk_id),
     description |-> Get(config, "description", ""),
     files |-> <<>>,
     classes |-> EmptyDict,
     functions |-> EmptyDict,
     imports |-> EmptyDict,
     file_map |-> EmptyDict,
     concepts |-> Get(config, "concepts", EmptyDict)]

\* a variant that records the display name without its ".md" extension
RECURSIVE BuildClassIndex_NoExtension(_, _, _)
BuildClassIndex_NoExtension(classes, saved_name, found) ==
    IF found = <<>> THEN classes
    ELSE BuildClassIndex_NoExtension(
            Put(classes, Head(found).name,
                [file |-> SubSeq(saved_name, 1, Len(saved_name) - 3),
                 line |-> Head(found).line, methods |-> Head(found).methods]),
            saved_name, Tail(found))

\* lines 56-61
RECURSIVE BuildClassIndex(_, _, _)
BuildClassIndex(classes, saved_name, found) ==
    IF found = <<>> THEN classes
    ELSE BuildClassIndex(
            Put(classes, Head(found).name,
                [file |-> saved_name, line |-> Head(found).line, methods |-> Head(found).methods]),
            saved_name, Tail(found))

\* a variant that keeps the entry a name already has
RECURSIVE BuildFunctionIndex_FirstWins(_, _, _)
BuildFunctionIndex_FirstWins(functions, saved_name, found) ==
    IF found = <<>> THEN functions
    ELSE BuildFunctionIndex_FirstWins(
            IF Head(found).name \in DOMAIN functions THEN functions
            ELSE Put(functions, Head(found).name,
                     [file |-> saved_name, line |-> Head(found).line]),
            saved_name, Tail(found))

\* lines 64-68
RECURSIVE BuildFunctionIndex(_, _, _)
BuildFunctionIndex(functions, saved_name, found) ==
    IF found = <<>> THEN functions
    ELSE BuildFunctionIndex(
            Put(functions, Head(found).name, [file |-> saved_name, line |-> Head(found).line]),
            saved_name, Tail(found))

\* lines 42-72: one iteration of the loop over the files
ProcessFile(index, sdk_id, config, file) ==
    IF _should_exclude(sdk_id, file, Get(config, "exclude_patterns", <<>>)) THEN index
    ELSE LET analysed == _analyze_file(sdk_id, file) IN
         IF analysed.raised THEN index
         ELSE LET saved_name == _generate_saved_name(analysed.file_info.relative_path, sdk_id)
                  file_info == [k \in DOMAIN analysed.file_info \cup {"saved_as"} |->
                                   IF k = "saved_as" THEN saved_name ELSE analysed.file_info[k]]
              IN [index EXCEPT
                    !.files = Append(@, file_info),
                    !.file_map = Put(@, saved_name, file_info.relative_path),
                    !.classes = BuildClassIndex(@, saved_name, file_info.classes),
                    !.functions = BuildFunctionIndex(@, saved_name, file_info.functions)]

\* the loop of lines 41-72 run to its end
RECURSIVE ProcessFiles(_, _, _, _)
ProcessFiles(index, sdk_id, config, todo) ==
    IF todo = <<>> THEN index
    ELSE ProcessFiles(ProcessFile(index, sdk_id, config, Head(todo)), sdk_id, config, Tail(todo))

\* the index a run of index_sdk over the given source files returns
IndexOf(sdk_id, files) ==
    LET config == SdkConfig(sdk_id)
    IN ProcessFiles(NewIndex(sdk_id, config), sdk_id, config, AllFiles(sdk_id, config, files))

(***************************************************************************)
(* Index store: persistence.  A persisted record is the JSON text that     *)
(* json.dump writes, kept as its value tree (objects, arrays, strings,     *)
(* numbers, booleans), or a text that json.load cannot parse.              *)
(***************************************************************************)

JStr(v) == [t |-> "string", v |-> v]
JNum(v) == [t |-> "number", v |-> v]
JBool(v) == [t |-> "bool", v |-> v]
JArr(seq, Enc(_)) == [t |-> "array", v |-> [i \in DOMAIN seq |-> Enc(seq[i])]]
JObj(dict, Enc(_)) == [t |-> "object", v |-> [k \in DOMAIN dict |-> Enc(dict[k])]]

EncMethod(m) == [t |-> "object", v |-> [name |-> JStr(m.name), line |-> JNum(m.line)]]
EncClass(c) ==
    [t |-> "object",
     v |-> [name |-> JStr(c.name), line |-> JNum(c.line),
            methods |-> JArr(c.methods, EncMethod), bases |-> JArr(c.bases, JStr)]]
EncFunction(f) ==
    [t |-> "object", v |-> [name |-> JStr(f.name), line |-> JNum(f.line), async |-> JBool(f.async)]]
EncFileInfo(f) ==
    [t |-> "object",
     v |-> [relative_path |-> JStr(f.relative_path), original_path |-> JStr(f.original_path),
            classes |-> JArr(f.classes, EncClass), functions |-> JArr(f.functions, EncFunction),
            imports |-> JArr(f.imports, JStr), size |-> JNum(f.size), lines |-> JNum(f.lines),
            saved_as |-> JStr(f.saved_as)]]
EncClassEntry(e) ==
    [t |-> "object",
     v |-> [file |-> JStr(e.file), line |-> JNum(e.line), methods |-> JArr(e.methods, EncMethod)]]
EncFunctionEntry(e) == [t |-> "object", v |-> [file |-> JStr(e.file), line |-> JNum(e.line)]]
EncVariants(names) == JArr(names, JStr)

\* json.dump(index, f)
JsonDump(index) ==
    [t |-> "object",
     v |-> [sdk_id |-> JStr(index.sdk_id), name |-> JStr(index.name),
            description |-> JStr(index.description),
            files |-> JArr(index.files, EncFileInfo),
            classes |-> JObj(index.classes, EncClassEntry),
            functions |-> JObj(index.functions, EncFunctionEntry),
            imports |-> JObj(index.imports, JStr),
            file_map |-> JObj(index.file_map, JStr),
            concepts |-> JObj(index.concepts, EncVariants)]]

\* json.load: the Python value of a JSON value tree
RECURSIVE JsonValue(_)
JsonValue(j) ==
    IF j.t \in {"array", "object"} THEN [k \in DOMAIN j.v |-> JsonValue(j.v[k])] ELSE j.v

\* a record whose text is not JSON (a truncated or foreign file)
Malformed == [wellformed |-> FALSE]
Record(json) == [wellformed |-> TRUE, json |-> json]

IndexSuffix == <<"_", "i", "n", "d", "e", "x", ".", "j", "s", "o", "n">>

\* line 199
IndexFileName(sdk_id) == sdk_id \o IndexSuffix

\* save_indices: one record per held index, overwriting a record of the same name
save_indices(dir, store) ==
    LET written == {IndexFileName(sdk_id) : sdk_id \in DOMAIN store}
        owner(file) == CHOOSE sdk_id \in DOMAIN store : IndexFileName(sdk_id) = file
    IN [file \in (DOMAIN dir) \cup written |->
            IF file \in written THEN Record(JsonDump(store[owner(file)])) ELSE dir[file]]

\* input_dir.glob("*_index.json"): the matching file names
IndexFiles(dir) == {file \in DOMAIN dir : EndsWith(file, IndexSuffix)}

\* the orders in which glob may yield the files
Orders(files) ==
    {order \in [1..Cardinality(files) -> files] :
        \A i, j \in DOMAIN order : i # j => order[i] # order[j]}

\* Python truthiness of index.get("sdk_id"): None and "" are false
Truthy(value) == value # <<>>

\* load_indices, lines 208-213, over the files in the order glob yields them;
\* json.load raising ends the loop and the call
RECURSIVE LoadLoop(_, _, _)
LoadLoop(store, dir, order) ==
    IF order = <<>> THEN [indices |-> store, raised |-> FALSE]
    ELSE LET record == dir[Head(order)] IN
         IF ~record.wellformed THEN [indices |-> store, raised |-> TRUE]
         ELSE LET index == JsonValue(record.json)
                  sdk_id == Get(index, "sdk_id", <<>>)
              IN LoadLoop(IF Truthy(sdk_id) THEN Put(store, sdk_id, index) ELSE store,
                          dir, Tail(order))

load_indices(store, dir, order) == LoadLoop(store, dir, order)

\* get_index
get_index(store, sdk_id) == IF sdk_id \in DOMAIN store THEN <<store[sdk_id]>> ELSE <<>>

(***************************************************************************)
(* The server: initialisation of the configured SDKs, one after the other  *)
(* (initialize_sdks), index reads by the tools at any time, restarts.      *)
(***************************************************************************)

NoBuild == [index |-> <<>>, todo |-> <<>>]

\* the document _save_sdk_files writes for a file: its relative path as a
\* header, then the source
Document(file_info) == [header |-> file_info.relative_path, lines |-> file_info.lines]

\* _save_sdk_files, lines 95-108
RECURSIVE SaveFiles(_, _, _)
SaveFiles(docs, existing, files) ==
    IF files = <<>> THEN docs
    ELSE SaveFiles(IF Head(files).original_path \in existing
                   THEN Put(docs, Head(files).saved_as, Document(Head(files)))
                   ELSE docs,
                   existing, Tail(files))

Init ==
    /\ registry \in Registries
    /\ indices = EmptyDict
    /\ index_dir = EmptyDict
    /\ data_dir = [sdk_id \in SdkIds |-> EmptyDict]
    /\ tree = [sdk_id \in SdkIds |-> {}]
    /\ pc = [sdk_id \in SdkIds |-> "waiting"]
    /\ build = [sdk_id \in SdkIds |-> NoBuild]
    /\ observed = <<>>
    /\ probe = <<>>

\* ProviderFactory.create_provider: the source types it knows
ProviderTypes == {"github", "url"}

\* a variant in which a failed initialisation stops the loop
IsNext_AfterDoneOnly(sdk_id) ==
    \E i \in DOMAIN registry :
        /\ registry[i] = sdk_id
        /\ \A j \in 1..(i - 1) : pc[registry[j]] = "done"

\* initialize_sdks reaches sdk_id once the initialisation of each SDK before
\* it has returned or has raised (and the exception was caught and printed)
IsNext(sdk_id) ==
    \E i \in DOMAIN registry :
        /\ registry[i] = sdk_id
        /\ \A j \in 1..(i - 1) : pc[registry[j]] \in {"done", "failed"}

\* provider.download: the source tree found under the returned path
Download(sdk_id) ==
    /\ pc[sdk_id] = "waiting"
    /\ IsNext(sdk_id)
    /\ SdkConfig(sdk_id).source.type \in ProviderTypes
    /\ \E version \in TreeVersions : tree' = [tree EXCEPT ![sdk_id] = version]
    /\ pc' = [pc EXCEPT ![sdk_id] = "downloaded"]
    /\ UNCHANGED <<indices, index_dir, data_dir, build, observed, registry, probe>>

\* a variant that reuses the index held for sdk_id instead of a fresh one
IndexStart_KeepPrior(sdk_id) ==
    /\ pc[sdk_id] = "downloaded"
    /\ build' = [build EXCEPT ![sdk_id] =
                    [index |-> IF sdk_id \in DOMAIN indices
                               THEN <<indices[sdk_id]>>
                               ELSE <<NewIndex(sdk_id, SdkConfig(sdk_id))>>,
                     todo |-> AllFiles(sdk_id, SdkConfig(sdk_id), tree[sdk_id])]]
    /\ pc' = [pc EXCEPT ![sdk_id] = "indexing"]
    /\ UNCHANGED <<indices, index_dir, data_dir, tree, observed, registry, probe>>

\* index_sdk, lines 19-38
IndexStart(sdk_id) ==
    /\ pc[sdk_id] = "downloaded"
    /\ build' = [build EXCEPT ![sdk_id] =
                    [index |-> <<NewIndex(sdk_id, SdkConfig(sdk_id))>>,
                     todo |-> AllFiles(sdk_id, SdkConfig(sdk_id), tree[sdk_id])]]
    /\ pc' = [pc EXCEPT ![sdk_id] = "indexing"]
    /\ UNCHANGED <<indices, index_dir, data_dir, tree, observed, registry, probe>>

\* a variant that assembles the index in the store itself
IndexFile_InPlace(sdk_id) ==
    /\ pc[sdk_id] = "indexing"
    /\ build[sdk_id].todo # <<>>
    /\ build' = [build EXCEPT ![sdk_id] =
                    [index |-> <<ProcessFile(build[sdk_id].index[1], sdk_id, SdkConfig(sdk_id),
                                             Head(build[sdk_id].todo))>>,
                     todo |-> Tail(build[sdk_id].todo)]]
    /\ indices' = Put(indices, sdk_id, build'[sdk_id].index[1])
    /\ UNCHANGED <<index_dir, data_dir, tree, pc, observed, registry, probe>>

\* index_sdk, lines 41-72: one file
IndexFile(sdk_id) ==
    /\ pc[sdk_id] = "indexing"
    /\ build[sdk_id].todo # <<>>
    /\ build' = [build EXCEPT ![sdk_id] =
                    [index |-> <<ProcessFile(build[sdk_id].index[1], sdk_id, SdkConfig(sdk_id),
                                             Head(build[sdk_id].todo))>>,
                     todo |-> Tail(build[sdk_id].todo)]]
    /\ UNCHANGED <<indices, index_dir, data_dir, tree, pc, observed, registry, probe>>

\* a variant that also writes the store to the index directory
IndexInstall_Persisting(sdk_id) ==
    /\ pc[sdk_id] = "indexing"
    /\ build[sdk_id].todo = <<>>
    /\ indices' = Put(indices, sdk_id, build[sdk_id].index[1])
    /\ index_dir' = save_indices(index_dir, indices')
    /\ pc' = [pc EXCEPT ![sdk_id] = "indexed"]
    /\ UNCHANGED <<data_dir, tree, build, observed, registry, probe>>

\* a variant that installs the index as a new mapping of its own
IndexInstall_Replacing(sdk_id) ==
    /\ pc[sdk_id] = "indexing"
    /\ build[sdk_id].todo = <<>>
    /\ indices' = Put(EmptyDict, sdk_id, build[sdk_id].index[1])
    /\ pc' = [pc EXCEPT ![sdk_id] = "indexed"]
    /\ UNCHANGED <<index_dir, data_dir, tree, build, observed, registry, probe>>

\* index_sdk, lines 74-75
IndexInstall(sdk_id) ==
    /\ pc[sdk_id] = "indexing"
    /\ build[sdk_id].todo = <<>>
    /\ indices' = Put(indices, sdk_id, build[sdk_id].index[1])
    /\ pc' = [pc EXCEPT ![sdk_id] = "indexed"]
    /\ UNCHANGED <<index_dir, data_dir, tree, build, observed, registry, probe>>

\* _initialize_single_sdk, line 83
SaveSdkFiles(sdk_id) ==
    /\ pc[sdk_id] = "indexed"
    /\ data_dir' = [data_dir EXCEPT ![sdk_id] =
                        SaveFiles(@, {OriginalPath(sdk_id, f) : f \in tree[sdk_id]},
                                  build[sdk_id].index[1].files)]
    /\ pc' = [pc EXCEPT ![sdk_id] = "saved"]
    /\ UNCHANGED <<indices, index_dir, tree, build, observed, registry, probe>>

\* _initialize_single_sdk, line 86
SaveIndices(sdk_id) ==
    /\ pc[sdk_id] = "saved"
    /\ index_dir' = save_indices(index_dir, indices)
    /\ pc' = [pc EXCEPT ![sdk_id] = "done"]
    /\ build' = [build EXCEPT ![sdk_id] = NoBuild]
    /\ UNCHANGED <<indices, data_dir, tree, observed, registry, probe>>

\* a tool reads the index (list_files, search_code, ...)
GetIndex(sdk_id) ==
    /\ observed' = <<sdk_id, get_index(indices, sdk_id), pc[sdk_id] = "indexing">>
    /\ UNCHANGED <<indices, index_dir, data_dir, tree, pc, build, registry, probe>>

\* the process ends and a new one starts: DynamicMCPServer.__init__
Restart ==
    /\ \E order \in Orders(IndexFiles(index_dir)) :
          LET loaded == load_indices(EmptyDict, index_dir, order)
          IN /\ ~loaded.raised
             /\ indices' = loaded.indices
    /\ pc' = [sdk_id \in SdkIds |-> "waiting"]
    /\ build' = [sdk_id \in SdkIds |-> NoBuild]
    /\ observed' = <<>>
    /\ UNCHANGED <<index_dir, data_dir, tree, registry, probe>>

Next ==
    \/ \E sdk_id \in SdkIds : Download(sdk_id)
    \/ \E sdk_id \in SdkIds : IndexStart(sdk_id)
    \/ \E sdk_id \in SdkIds : IndexFile(sdk_id)
    \/ \E sdk_id \in SdkIds : IndexInstall(sdk_id)
    \/ \E sdk_id \in SdkIds : SaveSdkFiles(sdk_id)
    \/ \E sdk_id \in SdkIds : SaveIndices(sdk_id)
    \/ \E sdk_id \in SdkIds : GetIndex(sdk_id)
    \/ Restart

Spec == Init /\ [][Next]_vars

(***************************************************************************)
(* Properties of the index build and of the store                          *)
(***************************************************************************)

\* the indexes a completed build of sdk_id can produce
CompleteIndexes(sdk_id) == {IndexOf(sdk_id, version) : version \in TreeVersions}

\* a step of a running index_sdk(sdk_id) call
IndexSdkStep(sdk_id) == IndexStart(sdk_id) \/ IndexFile(sdk_id) \/ IndexInstall(sdk_id)

\* the saved_as values of an index's file records
SavedNames(index) == {index.files[i].saved_as : i \in DOMAIN index.files}

\* C1: whatever get_index returns, also while a build of that SDK is in
\* progress, is a complete index (the result of a finished build of the
\* previous or of the new source tree), never a partly built one.
C1_ReadersSeeCompleteIndex ==
    (observed # <<>> /\ observed[2] # <<>>)
        => observed[2][1] \in CompleteIndexes(observed[1])

\* a read made while a rebuild had processed some but not all files returned
\* the previous index, which differs from the one being built
C1_Witness ==
    /\ observed # <<>>
    /\ observed[3]
    /\ observed[2] # <<>>
    /\ pc[observed[1]] = "indexing"
    /\ build[observed[1]].todo # <<>>
    /\ build[observed[1]].index[1].files # <<>>
    /\ observed[2][1] # IndexOf(observed[1], tree[observed[1]])

\* C2: in every index index_sdk produces (and in the one it is assembling),
\* each classes and functions entry names, as its file, the saved_as of a
\* file record of the same index.
NoDanglingFile(index) ==
    /\ \A name \in DOMAIN index.classes : index.classes[name].file \in SavedNames(index)
    /\ \A name \in DOMAIN index.functions : index.functions[name].file \in SavedNames(index)

C2_NoDanglingReferences ==
    \A sdk_id \in SdkIds :
        /\ sdk_id \in DOMAIN indices => NoDanglingFile(indices[sdk_id])
        /\ build[sdk_id].index # <<>> => NoDanglingFile(build[sdk_id].index[1])

C2_Witness ==
    \E sdk_id \in SdkIds :
        /\ pc[sdk_id] = "indexed"
        /\ Len(indices[sdk_id].files) > 1
        /\ DOMAIN indices[sdk_id].classes # {}
        /\ DOMAIN indices[sdk_id].functions # {}

\* C3: when index_sdk(X) completes for an X that already had an index, the
\* store's entry for X is exactly the index of the current source tree;
\* nothing of the prior index is carried over.
C3_RebuildReplaces ==
    [][\A sdk_id \in SdkIds :
          (pc[sdk_id] = "indexing" /\ pc'[sdk_id] = "indexed" /\ sdk_id \in DOMAIN indices)
              => /\ sdk_id \in DOMAIN indices'
                 /\ indices'[sdk_id] = IndexOf(sdk_id, tree[sdk_id])]_vars

\* a rebuild completed over a prior index that held a class the new one lacks
C3_Witness ==
    \E sdk_id \in SdkIds :
        /\ pc[sdk_id] = "indexed"
        /\ IndexFileName(sdk_id) \in DOMAIN index_dir
        /\ LET prior == JsonValue(index_dir[IndexFileName(sdk_id)].json)
           IN /\ DOMAIN prior.classes \ DOMAIN indices[sdk_id].classes # {}
              /\ DOMAIN prior.file_map \ DOMAIN indices[sdk_id].file_map # {}

\* C4 as claimed: no step of index_sdk changes the store or writes to disk.
C4_BuildLeavesStoreUnchanged ==
    [][(\E sdk_id \in SdkIds : IndexSdkStep(sdk_id))
          => (indices' = indices /\ index_dir' = index_dir /\ data_dir' = data_dir)]_vars

\* C4 as amended: index_sdk(sdkId) changes the store only at its end, where
\* it installs the index it returns under sdkId; the entries of the other
\* identifiers are unchanged, and nothing is written to the index or data
\* directories.
C4_BuildInstallsOnlyItsEntry ==
    [][\A sdk_id \in SdkIds :
          IndexSdkStep(sdk_id)
              => /\ index_dir' = index_dir
                 /\ data_dir' = data_dir
                 /\ DOMAIN indices' \subseteq (DOMAIN indices) \cup {sdk_id}
                 /\ \A other \in (DOMAIN indices) \ {sdk_id} :
                       other \in DOMAIN indices' /\ indices'[other] = indices[other]
                 /\ IF pc'[sdk_id] = "indexed"
                    THEN sdk_id \in DOMAIN indices'
                         /\ indices'[sdk_id] = build'[sdk_id].index[1]
                    ELSE indices' = indices]_vars

\* index_sdk("t") has just installed its index beside the one held for "s",
\* and the index directory has no record of "t"
C4_Witness ==
    /\ <<"t">> \in SdkIds
    /\ pc[<<"t">>] = "indexed"
    /\ <<"s">> \in DOMAIN indices
    /\ <<"t">> \in DOMAIN indices
    /\ indices[<<"t">>] = build[<<"t">>].index[1]
    /\ IndexFileName(<<"t">>) \notin DOMAIN index_dir

\* C7 as claimed: at any moment, saving the store and loading the directory
\* into a fresh store, in whatever order the records are read, gives back
\* exactly the store: the same identifiers with equal indexes.
C7_SaveLoadRoundTrip ==
    LET saved == save_indices(index_dir, indices)
    IN \A order \in Orders(IndexFiles(saved)) :
          load_indices(EmptyDict, saved, order) = [indices |-> indices, raised |-> FALSE]

\* the top-level function declarations of a parsed file, as the claims
\* describe them: the def and async def statements directly in the module body
TopLevelDeclarations(file) ==
    {file.tree.body[k] : k \in {k \in DOMAIN file.tree.body :
        file.tree.body[k].kind \in {"FunctionDef", "AsyncFunctionDef"}}}

\* the source file a file record of a just built index was made from
SourceOf(sdk_id, file_info) ==
    CHOOSE file \in tree[sdk_id] : file.relative_path = file_info.relative_path

\* C8 as claimed: in a just built index, every function of a file record and
\* every entry of the functions map is a function declared directly in the
\* module body of its file; methods and nested functions do not appear.
C8_OnlyTopLevelCallables ==
    \A sdk_id \in SdkIds :
        pc[sdk_id] = "indexed" =>
            LET index == build[sdk_id].index[1] IN
            /\ \A i \in DOMAIN index.files :
                  \A j \in DOMAIN index.files[i].functions :
                      \E node \in TopLevelDeclarations(SourceOf(sdk_id, index.files[i])) :
                          /\ node.name = index.files[i].functions[j].name
                          /\ node.lineno = index.files[i].functions[j].line
            /\ \A name \in DOMAIN index.functions :
                  \E i \in DOMAIN index.files :
                      \E node \in TopLevelDeclarations(SourceOf(sdk_id, index.files[i])) :
                          /\ node.name = name
                          /\ node.lineno = index.functions[name].line
                          /\ index.files[i].saved_as = index.functions[name].file

\* C9 as claimed: in a just built index, every top-level function of a parsed
\* file, asynchronous or not, is among the file record's functions with its
\* line and its asynchronous flag, and has an entry in the functions map.
C9_AsyncTopLevelCollected ==
    \A sdk_id \in SdkIds :
        pc[sdk_id] = "indexed" =>
            LET index == build[sdk_id].index[1] IN
            \A i \in DOMAIN index.files :
                SourceOf(sdk_id, index.files[i]).parses =>
                    \A node \in TopLevelDeclarations(SourceOf(sdk_id, index.files[i])) :
                        /\ \E j \in DOMAIN index.files[i].functions :
                              index.files[i].functions[j] =
                                  [name |-> node.name, line |-> node.lineno,
                                   async |-> node.kind = "AsyncFunctionDef"]
                        /\ node.name \in DOMAIN index.functions

(***************************************************************************)
(* load_indices on its own: a directory of persisted records, read in the  *)
(* order glob yields them, into a fresh store.                             *)
(***************************************************************************)

\* the rest of the server, not started
ServerIdle ==
    /\ registry = << <<"s">>, <<"t">> >>
    /\ index_dir = EmptyDict
    /\ data_dir = [sdk_id \in SdkIds |-> EmptyDict]
    /\ tree = [sdk_id \in SdkIds |-> {}]
    /\ pc = [sdk_id \in SdkIds |-> "waiting"]
    /\ build = [sdk_id \in SdkIds |-> NoBuild]
    /\ observed = <<>>

\* identifiers whose records the directory may hold
StoredIds == {<<"s">>, <<"t">>, <<>>}

\* what a file of the directory may contain: an index saved by save_indices,
\* or text that is not JSON
RecordsOf(sdk_id) ==
    {Malformed} \cup {Record(JsonDump(IndexOf(sdk_id, version))) : version \in TreeVersions}

Directories ==
    UNION {[{IndexFileName(sdk_id) : sdk_id \in ids} ->
                UNION {RecordsOf(sdk_id) : sdk_id \in StoredIds}] : ids \in SUBSET StoredIds}

\* a directory whose records carry the identifier their file name is made of
ConsistentDirectory(dir) ==
    \A sdk_id \in StoredIds :
        IndexFileName(sdk_id) \in DOMAIN dir => dir[IndexFileName(sdk_id)] \in RecordsOf(sdk_id)

InitLoad ==
    /\ ServerIdle
    /\ indices = EmptyDict
    /\ \E dir \in Directories :
          /\ ConsistentDirectory(dir)
          /\ \E order \in Orders(IndexFiles(dir)) :
                probe = [dir |-> dir, order |-> order, called |-> FALSE, raised |-> FALSE]

\* load_indices(input_dir)
LoadIndices ==
    /\ ~probe.called
    /\ LET loaded == load_indices(indices, probe.dir, probe.order)
       IN /\ indices' = loaded.indices
          /\ probe' = [probe EXCEPT !.called = TRUE, !.raised = loaded.raised]
    /\ UNCHANGED <<index_dir, data_dir, tree, registry, pc, build, observed>>

NextLoad == LoadIndices

SpecLoad == InitLoad /\ [][NextLoad]_vars

MalformedFiles(dir) == {file \in DOMAIN dir : ~dir[file].wellformed}

\* C6 as claimed: after load_indices on a directory with exactly one
\* malformed record and at least one well-formed record, the call has not
\* raised and every well-formed record that names its SDK is in the store.
C6_MalformedRecordSkipped ==
    (/\ probe.called
     /\ Cardinality(MalformedFiles(probe.dir)) = 1
     /\ DOMAIN probe.dir # MalformedFiles(probe.dir))
        => /\ ~probe.raised
           /\ \A file \in (DOMAIN probe.dir) \ MalformedFiles(probe.dir) :
                 LET index == JsonValue(probe.dir[file].json)
                 IN Truthy(index.sdk_id) =>
                       /\ index.sdk_id \in DOMAIN indices
                       /\ indices[index.sdk_id] = index

(***************************************************************************)
(* _generate_saved_name on its own: two relative paths of one SDK          *)
(***************************************************************************)

MaxPathLen == 3

\* relative paths of Python files written with one separator: up to
\* MaxPathLen characters "a", "_" and the separator, no component empty,
\* then the ".py" extension (what the default pattern "**/*.py" selects)
PathTexts(sep) ==
    LET stems == UNION {[1..n -> {"a", "_", sep}] : n \in 1..MaxPathLen}
        proper == {p \in stems : \A i \in DOMAIN SplitAt(p, sep, <<>>) : SplitAt(p, sep, <<>>)[i] # <<>>}
    IN {p \o <<".", "p", "y">> : p \in proper}

InitNames ==
    /\ ServerIdle
    /\ indices = EmptyDict
    /\ \E sep \in {"/", "\\"} :
          \E p, q \in PathTexts(sep) :
              probe = [sdk_id |-> <<"s">>, paths |-> <<p, q>>, names |-> <<>>]

\* index_sdk, line 49, for each of the two files
GenerateSavedNames ==
    /\ probe.names = <<>>
    /\ probe' = [probe EXCEPT !.names =
                    [i \in DOMAIN probe.paths |-> _generate_saved_name(probe.paths[i], probe.sdk_id)]]
    /\ UNCHANGED <<indices, index_dir, data_dir, tree, registry, pc, build, observed>>

NextNames == GenerateSavedNames

SpecNames == InitNames /\ [][NextNames]_vars

\* C10 as claimed: two distinct relative paths written with the same
\* separator never get the same display name.
C10_SavedNameInjective ==
    (probe.names # <<>> /\ probe.paths[1] # probe.paths[2])
        => probe.names[1] # probe.names[2]

(***************************************************************************)
(* Search engine                                                           *)
(***************************************************************************)

\* str.lower, for ASCII text
LowerCase ==
    [A |-> "a", B |-> "b", C |-> "c", D |-> "d", E |-> "e", F |-> "f", G |-> "g",
     H |-> "h", I |-> "i", J |-> "j", K |-> "k", L |-> "l", M |-> "m", N |-> "n",
     O |-> "o", P |-> "p", Q |-> "q", R |-> "r", S |-> "s", T |-> "t", U |-> "u",
     V |-> "v", W |-> "w", X |-> "x", Y |-> "y", Z |-> "z"]
Lower(c) == IF c \in DOMAIN LowerCase THEN LowerCase[c] ELSE c
LowerText(text) == [i \in DOMAIN text |-> Lower(text[i])]

\* str.strip: leading and trailing blanks removed
RECURSIVE LStrip(_)
LStrip(text) == IF text # <<>> /\ Head(text) = " " THEN LStrip(Tail(text)) ELSE text
RECURSIVE RStrip(_)
RStrip(text) ==
    IF text # <<>> /\ text[Len(text)] = " " THEN RStrip(SubSeq(text, 1, Len(text) - 1)) ELSE text
Strip(text) == RStrip(LStrip(text))

\* pattern in line
Contains(line, pattern) ==
    \E start \in 1..(Len(line) - Len(pattern) + 1) :
        SubSeq(line, start, start + Len(pattern) - 1) = pattern

\* The regular expressions used: a pattern is a sequence of atoms, each
\* optionally followed by "*".  An atom is a literal character, "." (any
\* character), "\s" (a blank), or a backslash followed by a character taken
\* literally.  An unescaped "(" opens a group that nothing closes.

\* the atom a pattern starts with, and the number of characters it takes
Atom(pattern) ==
    IF Head(pattern) = "\\"
    THEN IF Len(pattern) = 1 THEN [kind |-> "bad", c |-> "", width |-> 1]
         ELSE IF pattern[2] = "s" THEN [kind |-> "space", c |-> "", width |-> 2]
         ELSE [kind |-> "literal", c |-> pattern[2], width |-> 2]
    ELSE IF Head(pattern) = "." THEN [kind |-> "any", c |-> "", width |-> 1]
    ELSE IF Head(pattern) \in {"(", ")", "*"} THEN [kind |-> "bad", c |-> "", width |-> 1]
    ELSE [kind |-> "literal", c |-> Head(pattern), width |-> 1]

\* re.compile: the atoms of a pattern, each with its repetition
RECURSIVE Compile(_)
Compile(pattern) ==
    IF pattern = <<>> THEN <<>>
    ELSE LET atom == Atom(pattern)
             rest == SubSeq(pattern, atom.width + 1, Len(pattern))
             star == rest # <<>> /\ Head(rest) = "*"
         IN <<[kind |-> atom.kind, c |-> atom.c, star |-> star]>>
               \o Compile(IF star THEN Tail(rest) ELSE rest)

\* re.compile raises re.error
InvalidRegex(query) ==
    LET atoms == Compile(query) IN \E i \in DOMAIN atoms : atoms[i].kind = "bad"

AtomMatches(atom, c, ignorecase) ==
    IF atom.kind = "any" THEN TRUE
    ELSE IF atom.kind = "space" THEN c = " "
    ELSE IF ignorecase THEN Lower(c) = Lower(atom.c)
    ELSE c = atom.c

\* the atoms match a prefix of the text
RECURSIVE MatchHere(_, _, _)
MatchHere(atoms, text, ignorecase) ==
    IF atoms = <<>> THEN TRUE
    ELSE IF Head(atoms).star
         THEN \E k \in 0..Len(text) :
                 /\ \A i \in 1..k : AtomMatches(Head(atoms), text[i], ignorecase)
                 /\ MatchHere(Tail(atoms), SubSeq(text, k + 1, Len(text)), ignorecase)
    ELSE /\ text # <<>>
         /\ AtomMatches(Head(atoms), Head(text), ignorecase)
         /\ MatchHere(Tail(atoms), Tail(text), ignorecase)

\* pattern.search(line)
RegexSearch(pattern, line, ignorecase) ==
    \E start \in 1..(Len(line) + 1) :
        MatchHere(Compile(pattern), SubSeq(line, start, Len(line)), ignorecase)

\* lines 28-34: the prepared pattern
PreparePattern(query, regex, case_sensitive) ==
    IF regex THEN [text |-> query, ignorecase |-> ~case_sensitive]
    ELSE [text |-> IF case_sensitive THEN query ELSE LowerText(query), ignorecase |-> FALSE]

_line_matches(line, pattern, is_regex, case_sensitive) ==
    IF is_regex
    THEN RegexSearch(pattern.text, line, pattern.ignorecase)
    ELSE Contains(IF case_sensitive THEN line ELSE LowerText(line), pattern.text)

\* f"Line {line_num}: {line.strip()}"
MatchEntry(line_num, line) == [line |-> line_num, text |-> Strip(line)]

\* lines 62-66: the loop over the lines, from line_num on
RECURSIVE ScanLines(_, _, _, _, _, _, _)
ScanLines(lines, line_num, matches, pattern, is_regex, case_sensitive, max_results) ==
    IF line_num > Len(lines) THEN matches
    ELSE IF _line_matches(lines[line_num], pattern, is_regex, case_sensitive)
         THEN LET found == Append(matches, MatchEntry(line_num, lines[line_num]))
              IN IF Len(found) >= max_results THEN found
                 ELSE ScanLines(lines, line_num + 1, found, pattern, is_regex,
                                case_sensitive, max_results)
         ELSE ScanLines(lines, line_num + 1, matches, pattern, is_regex,
                        case_sensitive, max_results)

\* "Error reading file: ..."
ReadErrorEntry == [line |-> 0, text |-> <<"E", "r", "r", "o", "r">>]

\* _search_file; a document is [readable, lines]
_search_file(document, pattern, is_regex, case_sensitive, max_results) ==
    IF ~document.readable THEN <<ReadErrorEntry>>
    ELSE ScanLines(document.lines, 1, <<>>, pattern, is_regex, case_sensitive, max_results)

DefaultMaxResults == 10

ErrorKey == <<"e", "r", "r", "o", "r">>

\* lines 41-52: the loop over the index's file records
RECURSIVE SearchFiles(_, _, _, _, _, _, _)
SearchFiles(results, files, documents, pattern, regex, case_sensitive, max_results) ==
    IF files = <<>> THEN results
    ELSE LET saved_name == Get(Head(files), "saved_as", <<>>)
             matches == _search_file(documents[saved_name], pattern, regex,
                                     case_sensitive, max_results)
         IN SearchFiles(
                IF Truthy(saved_name) /\ saved_name \in DOMAIN documents /\ matches # <<>>
                THEN Put(results, saved_name, matches)
                ELSE results,
                Tail(files), documents, pattern, regex, case_sensitive, max_results)

\* what search_code returns for a pattern re.compile rejects
InvalidPatternResult ==
    Put(EmptyDict, ErrorKey, <<[line |-> 0, text |-> <<"I", "n", "v", "a", "l", "i", "d">>]>>)

\* a variant that compiles the pattern before it looks the index up
search_code_CompileFirst(store, data, sdk_id, query, options) ==
    LET index == get_index(store, sdk_id)
        case_sensitive == Get(options, "case_sensitive", FALSE)
        max_results_per_file == Get(options, "max_results_per_file", DefaultMaxResults)
        regex == Get(options, "regex", FALSE)
    IN IF regex /\ InvalidRegex(query) THEN InvalidPatternResult
       ELSE IF index = <<>> THEN EmptyDict
       ELSE IF sdk_id \notin DOMAIN data THEN EmptyDict
       ELSE SearchFiles(EmptyDict, index[1].files, data[sdk_id],
                        PreparePattern(query, regex, case_sensitive),
                        regex, case_sensitive, max_results_per_file)

\* a variant that searches for the text of a pattern re.compile rejects
search_code_LiteralFallback(store, data, sdk_id, query, options) ==
    LET index == get_index(store, sdk_id)
        case_sensitive == Get(options, "case_sensitive", FALSE)
        max_results_per_file == Get(options, "max_results_per_file", DefaultMaxResults)
        regex == Get(options, "regex", FALSE) /\ ~InvalidRegex(query)
    IN IF index = <<>> THEN EmptyDict
       ELSE IF sdk_id \notin DOMAIN data THEN EmptyDict
       ELSE SearchFiles(EmptyDict, index[1].files, data[sdk_id],
                        PreparePattern(query, regex, case_sensitive),
                        regex, case_sensitive, max_results_per_file)

\* search_code; `data` maps the SDKs that have a document directory to its
\* documents
search_code(store, data, sdk_id, query, options) ==
    LET index == get_index(store, sdk_id)
        case_sensitive == Get(options, "case_sensitive", FALSE)
        max_results_per_file == Get(options, "max_results_per_file", DefaultMaxResults)
        regex == Get(options, "regex", FALSE)
    IN IF index = <<>> THEN EmptyDict
       ELSE IF regex /\ InvalidRegex(query)
            THEN InvalidPatternResult
       ELSE IF sdk_id \notin DOMAIN data THEN EmptyDict
       ELSE SearchFiles(EmptyDict, index[1].files, data[sdk_id],
                        PreparePattern(query, regex, case_sensitive),
                        regex, case_sensitive, max_results_per_file)

(***************************************************************************)
(* search_code on its own: SDK "s" indexed from a source tree with the     *)
(* files a/b.py and c.py, and a data directory drawn from small documents. *)
(***************************************************************************)

MaxLines == 2
MaxResults == 2

SearchedTree == {FileAB, FileC, FileD, FileTxt}

LineTexts == { <<"a">>, <<" ", "A", "b">>, <<"b">> }

\* the documents a file of the data directory may hold
Documents ==
    {[readable |-> FALSE, lines |-> <<>>]}
        \cup {[readable |-> TRUE, lines |-> lines] :
                lines \in UNION {[1..n -> LineTexts] : n \in 0..MaxLines}}

SecondDocument == [readable |-> TRUE, lines |-> << <<"A">>, <<"a", "b", " ">> >>]

\* the data directories: none for the SDK, or one holding a document for
\* a/b.py or not, and one for c.py or not
DataDirectories ==
    LET first == _generate_saved_name(FileAB.relative_path, <<"s">>)
        second == _generate_saved_name(FileC.relative_path, <<"s">>)
        firsts == {EmptyDict} \cup {Put(EmptyDict, first, doc) : doc \in Documents}
        docs == firsts \cup {Put(d, second, SecondDocument) : d \in firsts}
    IN {EmptyDict} \cup {Put(EmptyDict, <<"s">>, d) : d \in docs}

Queries == { <<>>, <<"a">>, <<"A", "b">>, <<"(">> }

WithOption(options, key, values) == {options} \cup {Put(options, key, v) : v \in values}

OptionSets ==
    UNION {UNION {WithOption(o2, "max_results_per_file", 0..MaxResults) :
                    o2 \in WithOption(o1, "regex", {TRUE})} :
             o1 \in WithOption(EmptyDict, "case_sensitive", {TRUE})}

InitSearch ==
    /\ ServerIdle
    /\ indices = Put(EmptyDict, <<"s">>, IndexOf(<<"s">>, SearchedTree))
    /\ \E data \in DataDirectories, sdk_id \in SdkIds, query \in Queries, options \in OptionSets :
          probe = [data |-> data, sdk_id |-> sdk_id, query |-> query, options |-> options,
                   called |-> FALSE, result |-> EmptyDict]

\* a call of search_code(sdk_id, query, **options)
SearchCode ==
    /\ ~probe.called
    /\ probe' = [probe EXCEPT
                    !.called = TRUE,
                    !.result = search_code(indices, probe.data, probe.sdk_id, probe.query,
                                           probe.options)]
    /\ UNCHANGED <<indices, index_dir, data_dir, tree, registry, pc, build, observed>>

NextSearch == SearchCode

SpecSearch == InitSearch /\ [][NextSearch]_vars

\* the entries of a file's result list that report a matching line
MatchCount(entries) == Cardinality({i \in DOMAIN entries : entries[i].line >= 1})

\* C5 as claimed: a call with max_results_per_file = N, N >= 0, returns at
\* most N match entries for each file.
C5_AtMostNPerFile ==
    (probe.called /\ "max_results_per_file" \in DOMAIN probe.options)
        => \A file \in (DOMAIN probe.result) \ {ErrorKey} :
              MatchCount(probe.result[file]) <= probe.options["max_results_per_file"]

(***************************************************************************)
(* index_sdk on its own: the same source content indexed twice, each run   *)
(* with the directory walk yielding the files in an order of its own.      *)
(***************************************************************************)

\* x.py
\*    1 class Widget:
\*    2     def go(self): ...
\*    9 def top(): ...
FileX ==
    [relative_path |-> <<"x", ".", "p", "y">>, readable |-> TRUE,
     size |-> 80, lines |-> 10, parses |-> TRUE,
     tree |-> Module(<<
        Class("Widget", 1, <<>>, <<Def("go", 2, <<>>)>>),
        Def("top", 9, <<>>) >>)]

\* the source contents indexed
BuildTrees == TreeVersions \cup { {FileX, FileAB, FileA_B}, {FileC, FileD, FileX} }

MaxRuns == 2

\* source_path.glob(pattern): the matching files, in the order the walk of the
\* directory yields them
GlobListing(listing, pattern) ==
    SelectSeq(listing, LAMBDA f : GlobMatches(pattern, f.relative_path))

\* lines 36-38: all_files.extend(source_path.glob(pattern)) for each pattern
RECURSIVE CollectFiles(_, _)
CollectFiles(listing, file_patterns) ==
    IF file_patterns = <<>> THEN <<>>
    ELSE GlobListing(listing, Head(file_patterns)) \o CollectFiles(listing, Tail(file_patterns))

\* a variant that visits the files as collected
EnumerateFiles_AsCollected(sdk_id, all_files) == all_files

\* line 41: sorted(set(all_files))
EnumerateFiles(sdk_id, all_files) ==
    SortedFiles(sdk_id, {all_files[i] : i \in DOMAIN all_files})

\* index_sdk(sdk_id, source_path, config) run to its end: the index it
\* installs and returns
index_sdk(sdk_id, config, listing) ==
    ProcessFiles(NewIndex(sdk_id, config), sdk_id, config,
                 EnumerateFiles(sdk_id,
                    CollectFiles(listing, Get(config, "file_patterns", <<PyGlob>>))))

InitBuild ==
    /\ ServerIdle
    /\ indices = EmptyDict
    /\ \E version \in BuildTrees, sdk_id \in SdkIds :
          probe = [version |-> version, sdk_id |-> sdk_id, listings |-> <<>>, returned |-> <<>>]

\* one call of index_sdk
IndexSdk ==
    /\ Len(probe.returned) < MaxRuns
    /\ \E listing \in Orders(probe.version) :
          LET index == index_sdk(probe.sdk_id, SdkConfig(probe.sdk_id), listing)
          IN /\ indices' = Put(indices, probe.sdk_id, index)
             /\ probe' = [probe EXCEPT !.listings = Append(@, listing),
                                       !.returned = Append(@, index)]
    /\ UNCHANGED <<index_dir, data_dir, tree, registry, pc, build, observed>>

NextBuild == IndexSdk

SpecBuild == InitBuild /\ [][NextBuild]_vars

\* C11: the runs of index_sdk over the same source content, with the same
\* identifier and configuration, return equal indexes, whatever the order in
\* which each run's directory walk yields the files.
C11_Deterministic ==
    \A i, j \in DOMAIN probe.returned : probe.returned[i] = probe.returned[j]

\* two runs whose walks yielded the files in different orders returned the
\* same index, with several file records
C11_Witness ==
    /\ Len(probe.returned) = 2
    /\ probe.listings[1] # probe.listings[2]
    /\ Len(probe.returned[1].files) >= 2
    /\ probe.returned[1] = probe.returned[2]

\* the file records of an index that declare a class (field "classes") or a
\* function (field "functions") called name
Declaring(index, field, name) ==
    {i \in DOMAIN index.files :
        \E k \in DOMAIN index.files[i][field] : index.files[i][field][k].name = name}

LastOf(positions) == CHOOSE i \in positions : \A j \in positions : j <= i

\* the last declaration called name in a file record's list
LastNamed(declarations, name) ==
    declarations[LastOf({k \in DOMAIN declarations : declarations[k].name = name})]

\* the file records are in the sorted order of their paths
FilesSorted(index) ==
    \A i, j \in DOMAIN index.files :
        i < j => PartsLess(Parts(index.files[i].original_path),
                           Parts(index.files[j].original_path))

\* C12: in the index index_sdk returns, the file records are in sorted path
\* order, and classes[name] (resp. functions[name]) is the entry of the last
\* file record that declares the name: that file's display name, line and
\* (for a class) methods.
C12_LastFileWins ==
    \A r \in DOMAIN probe.returned :
        LET index == probe.returned[r] IN
        /\ FilesSorted(index)
        /\ \A name \in DOMAIN index.classes :
              /\ Declaring(index, "classes", name) # {}
              /\ LET file_info == index.files[LastOf(Declaring(index, "classes", name))]
                     cls == LastNamed(file_info.classes, name)
                 IN index.classes[name] =
                        [file |-> file_info.saved_as, line |-> cls.line, methods |-> cls.methods]
        /\ \A name \in DOMAIN index.functions :
              /\ Declaring(index, "functions", name) # {}
              /\ LET file_info == index.files[LastOf(Declaring(index, "functions", name))]
                     func == LastNamed(file_info.functions, name)
                 IN index.functions[name] = [file |-> file_info.saved_as, line |-> func.line]

\* x.py, which the walk yielded first and which sorts last, declares Widget
\* and top as a/b.py and a_b.py do, and both entries refer to x.py
C12_Witness ==
    /\ Len(probe.returned) >= 1
    /\ probe.listings[1][1] = FileX
    /\ Cardinality(Declaring(probe.returned[1], "classes", "Widget")) = 3
    /\ Cardinality(Declaring(probe.returned[1], "functions", "top")) = 3
    /\ probe.returned[1].classes["Widget"].file = _generate_saved_name(FileX.relative_path, probe.sdk_id)
    /\ probe.returned[1].classes["Widget"].line = 1
    /\ probe.returned[1].functions["top"].file = _generate_saved_name(FileX.relative_path, probe.sdk_id)
    /\ probe.returned[1].functions["top"].line = 9

\* the files of a source tree that index_sdk visits and does not exclude
Selected(sdk_id, files) ==
    LET config == SdkConfig(sdk_id)
        file_patterns == Get(config, "file_patterns", <<PyGlob>>)
    IN {f \in UNION {Glob(files, file_patterns[i]) : i \in DOMAIN file_patterns} :
            ~_should_exclude(sdk_id, f, Get(config, "exclude_patterns", <<>>))}

\* C19: index_sdk returns an index in which a selected file that cannot be
\* read has no file record and, unless a readable file has the same display
\* name, no file_map, classes or functions entry, while every selected file
\* that can be read has its file record.
C19_FailedFileSkipped ==
    \A r \in DOMAIN probe.returned :
        LET index == probe.returned[r]
            selected == Selected(probe.sdk_id, probe.version)
            Name(f) == _generate_saved_name(f.relative_path, probe.sdk_id)
        IN \A f \in selected :
              IF f.readable
              THEN \E i \in DOMAIN index.files : index.files[i].relative_path = f.relative_path
              ELSE /\ \A i \in DOMAIN index.files : index.files[i].relative_path # f.relative_path
                   /\ (\A g \in selected : g.readable => Name(g) # Name(f))
                         => /\ Name(f) \notin DOMAIN index.file_map
                            /\ \A name \in DOMAIN index.classes : index.classes[name].file # Name(f)
                            /\ \A name \in DOMAIN index.functions : index.functions[name].file # Name(f)

\* d.py, which cannot be read, was selected and sorts between c.py and x.py;
\* the returned index has records for c.py and x.py and none for d.py
C19_Witness ==
    /\ Len(probe.returned) >= 1
    /\ probe.version = {FileC, FileD, FileX}
    /\ FileD \in Selected(probe.sdk_id, probe.version)
    /\ probe.listings[1][1] = FileD
    /\ [i \in DOMAIN probe.returned[1].files |-> probe.returned[1].files[i].relative_path]
          = <<FileC.relative_path, FileX.relative_path>>

\* the call was made in regex mode with a pattern re.compile rejects
MalformedPatternCall ==
    /\ Get(probe.options, "regex", FALSE)
    /\ InvalidRegex(probe.query)

\* C17 as claimed: search_code returns the empty mapping whenever the SDK has
\* no index or no document directory, for every query and all options.
C17_AbsentYieldsEmpty ==
    (probe.called /\ (probe.sdk_id \notin DOMAIN indices \/ probe.sdk_id \notin DOMAIN probe.data))
        => probe.result = EmptyDict

\* C17, amended: search_code returns the empty mapping whenever the SDK has
\* no index, for every query and all options, and whenever the SDK is indexed
\* and has no document directory, unless the call is in regex mode with a
\* malformed pattern.
C17_AbsentYieldsEmptyUnlessMalformed ==
    (/\ probe.called
     /\ \/ probe.sdk_id \notin DOMAIN indices
        \/ (probe.sdk_id \notin DOMAIN probe.data /\ ~MalformedPatternCall))
        => probe.result = EmptyDict

\* a regex search with a malformed pattern over an SDK that has no index
\* returned the empty mapping
C17_Witness ==
    /\ probe.called
    /\ probe.sdk_id \notin DOMAIN indices
    /\ MalformedPatternCall
    /\ probe.result = EmptyDict

\* C18: search_code in regex mode with a malformed pattern on an indexed SDK
\* returns exactly one entry, under the error key, holding one message, and
\* no entry for any file, whatever the documents hold.
C18_MalformedPatternReported ==
    (probe.called /\ probe.sdk_id \in DOMAIN indices /\ MalformedPatternCall)
        => /\ DOMAIN probe.result = {ErrorKey}
           /\ Len(probe.result[ErrorKey]) = 1
           /\ probe.result[ErrorKey][1].line = 0

\* the malformed pattern was searched in an SDK one of whose documents cannot
\* be read and another has lines; the result is the single error entry
C18_Witness ==
    /\ probe.called
    /\ probe.sdk_id \in DOMAIN indices
    /\ MalformedPatternCall
    /\ probe.sdk_id \in DOMAIN probe.data
    /\ \E file \in DOMAIN probe.data[probe.sdk_id] : ~probe.data[probe.sdk_id][file].readable
    /\ \E file \in DOMAIN probe.data[probe.sdk_id] : probe.data[probe.sdk_id][file].lines # <<>>
    /\ probe.result = InvalidPatternResult

(***************************************************************************)
(* Structural lookups and class source extraction                          *)
(***************************************************************************)

\* the text of a name
NameTexts ==
    [Widget |-> <<"W", "i", "d", "g", "e", "t">>,
     Inner |-> <<"I", "n", "n", "e", "r">>,
     Nope |-> <<"N", "o", "p", "e">>,
     top |-> <<"t", "o", "p">>,
     agent |-> <<"a", "g", "e", "n", "t">>,
     tool |-> <<"t", "o", "o", "l">>]

\* a name that is no identifier has its own text too
NameText(name) == IF name = "(" THEN <<"(">> ELSE NameTexts[name]

\* sep.join(lines)
RECURSIVE Join(_, _)
Join(lines, sep) ==
    IF lines = <<>> THEN <<>>
    ELSE IF Len(lines) = 1 THEN lines[1]
    ELSE lines[1] \o <<sep>> \o Join(Tail(lines), sep)

\* file_path.read_text() of a document kept as its lines
Content(document) == Join(document.lines, "\n")

find_class(store, sdk_id, class_name) ==
    LET index == get_index(store, sdk_id)
    IN IF index = <<>> THEN <<>>
       ELSE IF class_name \in DOMAIN index[1].classes THEN <<index[1].classes[class_name]>>
       ELSE <<>>

find_function(store, sdk_id, function_name) ==
    LET index == get_index(store, sdk_id)
    IN IF index = <<>> THEN <<>>
       ELSE IF function_name \in DOMAIN index[1].functions
            THEN <<index[1].functions[function_name]>>
       ELSE <<>>

\* f"class {class_name}"
ClassNeedle(class_name) == <<"c", "l", "a", "s", "s", " ">> \o NameText(class_name)

\* lines 135-139: the index of the first line containing the needle, 0 for None
RECURSIVE FindClassStart(_, _, _)
FindClassStart(lines, needle, i) ==
    IF i > Len(lines) THEN 0
    ELSE IF Contains(lines[i], needle) THEN i
    ELSE FindClassStart(lines, needle, i + 1)

\* len(line) - len(line.lstrip())
Indentation(line) == Len(line) - Len(LStrip(line))

\* a variant that ends the class only at a line indented less than its first
RECURSIVE ClassBody_EndsAtLess(_, _, _, _)
ClassBody_EndsAtLess(lines, i, base_indent, result_lines) ==
    IF i > Len(lines) THEN result_lines
    ELSE IF Strip(lines[i]) = <<>>
         THEN ClassBody_EndsAtLess(lines, i + 1, base_indent, Append(result_lines, lines[i]))
    ELSE IF Indentation(lines[i]) < base_indent THEN result_lines
    ELSE ClassBody_EndsAtLess(lines, i + 1, base_indent, Append(result_lines, lines[i]))

\* lines 148-159: the loop over the lines after the class line
RECURSIVE ClassBody(_, _, _, _)
ClassBody(lines, i, base_indent, result_lines) ==
    IF i > Len(lines) THEN result_lines
    ELSE IF Strip(lines[i]) = <<>>
         THEN ClassBody(lines, i + 1, base_indent, Append(result_lines, lines[i]))
    ELSE IF Indentation(lines[i]) <= base_indent /\ Strip(lines[i]) # <<>> THEN result_lines
    ELSE ClassBody(lines, i + 1, base_indent, Append(result_lines, lines[i]))

\* f"Class {class_name} not found in file"
NotFoundMessage(class_name) ==
    <<"C", "l", "a", "s", "s", " ">> \o NameText(class_name) \o <<" ", "n", "o", "t", " ", "f", "o", "u", "n", "d", " ", "i", "n", " ", "f", "i", "l", "e">>

_extract_class_from_content(content, class_name, start_line) ==
    LET lines == SplitAt(content, "\n", <<>>)
        class_start == FindClassStart(lines, ClassNeedle(class_name), 1)
    IN IF class_start = 0 THEN NotFoundMessage(class_name)
       ELSE Join(ClassBody(lines, class_start + 1, Indentation(lines[class_start]),
                           <<lines[class_start]>>),
                 "\n")

\* "Error reading class source: ..."
ClassSourceError == <<"E", "r", "r", "o", "r", " ", "r", "e", "a", "d", "i", "n", "g", " ", "c", "l", "a", "s", "s", " ", "s", "o", "u", "r", "c", "e">>

\* get_class_source: None is <<>>, a text is <<text>>
get_class_source(store, data, sdk_id, class_name) ==
    LET class_info == find_class(store, sdk_id, class_name)
    IN IF class_info = <<>> THEN <<>>
       ELSE LET file_name == Get(class_info[1], "file", <<>>) IN
            IF ~Truthy(file_name) THEN <<>>
            ELSE IF sdk_id \notin DOMAIN data \/ file_name \notin DOMAIN data[sdk_id] THEN <<>>
            ELSE IF ~data[sdk_id][file_name].readable THEN <<ClassSourceError>>
            ELSE <<_extract_class_from_content(Content(data[sdk_id][file_name]), class_name,
                                               Get(class_info[1], "line", 1))>>

(***************************************************************************)
(* get_class_source on its own: SDK "s" indexed as for search_code, its    *)
(* document for a/b.py drawn from short texts.                             *)
(***************************************************************************)

MaxSourceLines == 4

SourceLines ==
    { <<"c", "l", "a", "s", "s", " ", "W", "i", "d", "g", "e", "t", ":">>,
      <<" ", " ", "c", "l", "a", "s", "s", " ", "W", "i", "d", "g", "e", "t", "(">>,
      <<"c", "l", "a", "s", "s", " ", "W", "i", "d", "g", "e", "t", "s", ":">>,
      <<>>,
      <<" ">>,
      <<" ", " ", "x">>,
      <<"y">> }

SourceDocuments ==
    {[readable |-> FALSE, lines |-> <<>>]}
        \cup {[readable |-> TRUE, lines |-> lines] :
                lines \in UNION {[1..n -> SourceLines] : n \in 0..MaxSourceLines}}

SourceDirectories ==
    LET name == _generate_saved_name(FileAB.relative_path, <<"s">>)
    IN {EmptyDict, Put(EmptyDict, <<"s">>, EmptyDict)}
          \cup {Put(EmptyDict, <<"s">>, Put(EmptyDict, name, doc)) : doc \in SourceDocuments}

InitSource ==
    /\ ServerIdle
    /\ indices = Put(EmptyDict, <<"s">>, IndexOf(<<"s">>, SearchedTree))
    /\ \E data \in SourceDirectories, sdk_id \in SdkIds, class_name \in {"Widget", "Nope"} :
          probe = [data |-> data, sdk_id |-> sdk_id, class_name |-> class_name,
                   called |-> FALSE, result |-> <<>>]

\* a call of get_class_source(sdk_id, class_name)
GetClassSource ==
    /\ ~probe.called
    /\ probe' = [probe EXCEPT
                    !.called = TRUE,
                    !.result = get_class_source(indices, probe.data, probe.sdk_id,
                                                probe.class_name)]
    /\ UNCHANGED <<indices, index_dir, data_dir, tree, registry, pc, build, observed>>

NextSource == GetClassSource

SpecSource == InitSource /\ [][NextSource]_vars

\* a line of blanks only
BlankLine(line) == \A i \in DOMAIN line : line[i] = " "

\* the number of blanks a line starts with
LeadingBlanks(line) ==
    CHOOSE n \in 0..Len(line) :
        /\ \A i \in 1..n : line[i] = " "
        /\ n < Len(line) => line[n + 1] # " "

Least(positions) == CHOOSE i \in positions : \A j \in positions : i <= j

\* the lines of the document get_class_source was called on
ProbedLines ==
    probe.data[probe.sdk_id][find_class(indices, probe.sdk_id, probe.class_name)[1].file].lines

\* the call was for an indexed class whose document exists, can be read and
\* has a line containing "class <name>"
ClassLinePresent ==
    /\ probe.called
    /\ find_class(indices, probe.sdk_id, probe.class_name) # <<>>
    /\ probe.sdk_id \in DOMAIN probe.data
    /\ find_class(indices, probe.sdk_id, probe.class_name)[1].file
          \in DOMAIN probe.data[probe.sdk_id]
    /\ probe.data[probe.sdk_id]
          [find_class(indices, probe.sdk_id, probe.class_name)[1].file].readable
    /\ \E i \in DOMAIN ProbedLines : Contains(ProbedLines[i], ClassNeedle(probe.class_name))

\* C13: for an indexed class whose document has a line containing
\* "class <name>", get_class_source returns the first such line and the lines
\* after it up to, not including, the first line that is not blank and is
\* indented no more than that first line; blank lines before it are included.
C13_IndentationBlock ==
    ClassLinePresent =>
        LET lines == ProbedLines
            start == Least({i \in DOMAIN lines : Contains(lines[i], ClassNeedle(probe.class_name))})
            stops == {j \in DOMAIN lines :
                        /\ j > start
                        /\ ~BlankLine(lines[j])
                        /\ LeadingBlanks(lines[j]) <= LeadingBlanks(lines[start])}
            stop == IF stops = {} THEN Len(lines) + 1 ELSE Least(stops)
        IN probe.result = <<Join(SubSeq(lines, start, stop - 1), "\n")>>

\* a class declared at indentation 0, followed by an indented line, an empty
\* line and a line at indentation 0: the first three lines are returned
C13_Witness ==
    /\ ClassLinePresent
    /\ ProbedLines = << <<"c", "l", "a", "s", "s", " ", "W", "i", "d", "g", "e", "t", ":">>, <<" ", " ", "x">>, <<>>, <<"y">> >>
    /\ probe.result = <<Join(SubSeq(ProbedLines, 1, 3), "\n")>>

(***************************************************************************)
(* Usage examples                                                          *)
(***************************************************************************)

ExamplesPerPattern == 5

\* lines 166-172: the five patterns made from the topic
ExamplePatterns(topic) ==
    << <<"d", "e", "f", ".", "*">> \o topic,
       <<"c", "l", "a", "s", "s", ".", "*">> \o topic,
       topic \o <<"\\", "s", "*", "\\", "(">>,
       <<"@">> \o topic,
       <<"s", "e", "l", "f", "\\", ".">> \o topic >>

\* lines 177-180: the matches of one search added to all_results
Extend(all_results, results) ==
    [file \in (DOMAIN all_results) \cup (DOMAIN results) |->
        Get(all_results, file, <<>>) \o Get(results, file, <<>>)]

\* lines 175-180: the loop over the patterns
RECURSIVE ExamplesLoop(_, _, _, _, _)
ExamplesLoop(all_results, patterns, store, data, sdk_id) ==
    IF patterns = <<>> THEN all_results
    ELSE ExamplesLoop(
            Extend(all_results,
                   search_code(store, data, sdk_id, Head(patterns),
                               [regex |-> TRUE, max_results_per_file |-> ExamplesPerPattern])),
            Tail(patterns), store, data, sdk_id)

find_examples(store, data, sdk_id, topic) ==
    ExamplesLoop(EmptyDict, ExamplePatterns(topic), store, data, sdk_id)

(***************************************************************************)
(* find_examples on its own: SDK "s" indexed as for search_code, its       *)
(* document for a/b.py drawn from short texts or a long one.               *)
(***************************************************************************)

MaxExampleLines == 2

ExampleLines ==
    { <<"d", "e", "f", " ", "a", "(">>,
      <<"@", "a">>,
      <<"s", "e", "l", "f", ".", "a", " ", "b", " ", "(">>,
      <<" ", "c", "l", "a", "s", "s", " ", "A">>,
      <<"b">> }

\* seven lines that the first pattern matches for the topic "a"
LongDocument ==
    [readable |-> TRUE, lines |-> [i \in 1..7 |-> IF i = 4 THEN <<" ", "c", "l", "a", "s", "s", " ", "A">> ELSE <<"d", "e", "f", " ", "a">>]]

ExampleDocuments ==
    {[readable |-> FALSE, lines |-> <<>>], LongDocument}
        \cup {[readable |-> TRUE, lines |-> lines] :
                lines \in UNION {[1..n -> ExampleLines] : n \in 0..MaxExampleLines}}

ExampleDirectories ==
    LET first == _generate_saved_name(FileAB.relative_path, <<"s">>)
        second == _generate_saved_name(FileC.relative_path, <<"s">>)
        firsts == {EmptyDict} \cup {Put(EmptyDict, first, doc) : doc \in ExampleDocuments}
        docs == firsts \cup {Put(d, second, SecondDocument) : d \in firsts}
    IN {EmptyDict} \cup {Put(EmptyDict, <<"s">>, d) : d \in docs}

Topics == { <<>>, <<"a">>, <<"A">>, <<"b">>, <<"(">> }

InitExamples ==
    /\ ServerIdle
    /\ indices = Put(EmptyDict, <<"s">>, IndexOf(<<"s">>, SearchedTree))
    /\ \E data \in ExampleDirectories, sdk_id \in SdkIds, topic \in Topics :
          probe = [data |-> data, sdk_id |-> sdk_id, topic |-> topic,
                   called |-> FALSE, result |-> EmptyDict]

\* a call of find_examples(sdk_id, topic)
FindExamples ==
    /\ ~probe.called
    /\ probe' = [probe EXCEPT
                    !.called = TRUE,
                    !.result = find_examples(indices, probe.data, probe.sdk_id, probe.topic)]
    /\ UNCHANGED <<indices, index_dir, data_dir, tree, registry, pc, build, observed>>

NextExamples == FindExamples

SpecExamples == InitExamples /\ [][NextExamples]_vars

\* the entries one pattern's search returns for a file
PatternMatches(file, k) ==
    Get(search_code(indices, probe.data, probe.sdk_id, ExamplePatterns(probe.topic)[k],
                    [regex |-> TRUE, max_results_per_file |-> ExamplesPerPattern]),
        file, <<>>)

\* C14 as claimed: for each file, the list find_examples returns holds the
\* entries of the five pattern searches, each matching line once, and each
\* pattern's search gives at most five entries for the file.
C14_ExamplesDeduplicated ==
    probe.called =>
        \A file \in DOMAIN probe.result :
            LET entries == probe.result[file] IN
            /\ \A i, j \in DOMAIN entries :
                  (i # j /\ entries[i].line >= 1) => entries[i] # entries[j]
            /\ {entries[i] : i \in DOMAIN entries}
                  = UNION {{PatternMatches(file, k)[i] : i \in DOMAIN PatternMatches(file, k)} :
                             k \in 1..5}
            /\ \A k \in 1..5 : Len(PatternMatches(file, k)) <= ExamplesPerPattern

(***************************************************************************)
(* Comparison of implementations across SDKs                               *)
(***************************************************************************)

\* lines 203-223: the names looked up as a class and as a function
RECURSIVE LookUp(_, _, _, _)
LookUp(sdk_info, names, store, sdk_id) ==
    IF names = <<>> THEN sdk_info
    ELSE LET class_info == find_class(store, sdk_id, Head(names))
             func_info == find_function(store, sdk_id, Head(names))
         IN LookUp([sdk_info EXCEPT
                      !.classes = IF class_info # <<>> THEN Put(@, Head(names), class_info[1])
                                  ELSE @,
                      !.functions = IF func_info # <<>> THEN Put(@, Head(names), func_info[1])
                                    ELSE @],
                   Tail(names), store, sdk_id)

\* a variant that looks the concept up besides its configured variants
SdkInfo_ConceptToo(store, data, concept, sdk_id) ==
    LET index == store[sdk_id]
        concepts == Get(index, "concepts", EmptyDict)
        fresh == [sdk_name |-> Get(index, "name", sdk_id), classes |-> EmptyDict,
                  functions |-> EmptyDict, examples |-> EmptyDict]
        found == LookUp(fresh,
                        IF concept \in DOMAIN concepts
                        THEN concepts[concept] \o <<concept>> ELSE <<concept>>,
                        store, sdk_id)
    IN [found EXCEPT !.examples = find_examples(store, data, sdk_id, NameText(concept))]

\* lines 193-223: what is gathered for one indexed SDK
SdkInfo(store, data, concept, sdk_id) ==
    LET index == store[sdk_id]
        concepts == Get(index, "concepts", EmptyDict)
        fresh == [sdk_name |-> Get(index, "name", sdk_id), classes |-> EmptyDict,
                  functions |-> EmptyDict, examples |-> EmptyDict]
        found == LookUp(fresh,
                        IF concept \in DOMAIN concepts THEN concepts[concept] ELSE <<concept>>,
                        store, sdk_id)
    IN [found EXCEPT !.examples = find_examples(store, data, sdk_id, NameText(concept))]

\* a variant that keeps every indexed SDK in the result
RECURSIVE CompareLoop_KeepAll(_, _, _, _, _)
CompareLoop_KeepAll(comparisons, sdk_ids, store, data, concept) ==
    IF sdk_ids = <<>> THEN comparisons
    ELSE IF Head(sdk_ids) \notin DOMAIN store
         THEN CompareLoop_KeepAll(comparisons, Tail(sdk_ids), store, data, concept)
    ELSE CompareLoop_KeepAll(
            Put(comparisons, Head(sdk_ids), SdkInfo(store, data, concept, Head(sdk_ids))),
            Tail(sdk_ids), store, data, concept)

\* lines 188-227: the loop over the requested SDKs
RECURSIVE CompareLoop(_, _, _, _, _)
CompareLoop(comparisons, sdk_ids, store, data, concept) ==
    IF sdk_ids = <<>> THEN comparisons
    ELSE IF Head(sdk_ids) \notin DOMAIN store
         THEN CompareLoop(comparisons, Tail(sdk_ids), store, data, concept)
    ELSE LET sdk_info == SdkInfo(store, data, concept, Head(sdk_ids))
         IN CompareLoop(
               IF \/ sdk_info.classes # EmptyDict
                  \/ sdk_info.functions # EmptyDict
                  \/ sdk_info.examples # EmptyDict
               THEN Put(comparisons, Head(sdk_ids), sdk_info)
               ELSE comparisons,
               Tail(sdk_ids), store, data, concept)

compare_implementations(store, data, concept, sdk_ids) ==
    CompareLoop(EmptyDict, sdk_ids, store, data, concept)

(***************************************************************************)
(* compare_implementations on its own: SDK "s" indexed, SDK "t" indexed or *)
(* not, a few data directories, and a list of requested identifiers.       *)
(***************************************************************************)

MaxSdkIds == 2

\* the stores: "s" indexed, "t" not indexed or indexed from one of two trees
ComparedStores ==
    LET store == Put(EmptyDict, <<"s">>, IndexOf(<<"s">>, SearchedTree))
    IN {store} \cup {Put(store, <<"t">>, IndexOf(<<"t">>, version)) :
                        version \in { {FileAB, FileA_B}, {FileA_B, FileTxt} }}

ComparedData ==
    LET s_doc == [readable |-> TRUE,
                  lines |-> << <<"c", "l", "a", "s", "s", " ", "W", "i", "d", "g", "e", "t", ":">>, <<" ", " ", "a", "g", "e", "n", "t", " ", "(", "x", ")">>, <<"@", "t", "o", "p">> >>]
        t_doc == [readable |-> TRUE, lines |-> << <<"d", "e", "f", " ", "t", "o", "p", "(">>, <<"s", "e", "l", "f", ".", "n", "o", "p", "e">> >>]
        s_dir == Put(EmptyDict, _generate_saved_name(FileAB.relative_path, <<"s">>), s_doc)
        t_dir == Put(EmptyDict, _generate_saved_name(FileA_B.relative_path, <<"t">>), t_doc)
    IN {EmptyDict,
        Put(EmptyDict, <<"s">>, s_dir),
        Put(EmptyDict, <<"t">>, t_dir),
        Put(Put(EmptyDict, <<"s">>, s_dir), <<"t">>, t_dir)}

Concepts == {"agent", "Inner", "Widget", "top", "Nope", "("}

\* the identifiers a caller may request: two configured SDKs and an unknown one
RequestedIds == {<<"s">>, <<"t">>, <<"n">>}

InitCompare ==
    /\ ServerIdle
    /\ indices \in ComparedStores
    /\ \E data \in ComparedData, concept \in Concepts,
          sdk_ids \in UNION {[1..n -> RequestedIds] : n \in 0..MaxSdkIds} :
          probe = [data |-> data, concept |-> concept, sdk_ids |-> sdk_ids,
                   called |-> FALSE, result |-> EmptyDict]

\* a call of compare_implementations(concept, sdk_ids)
CompareImplementations ==
    /\ ~probe.called
    /\ probe' = [probe EXCEPT
                    !.called = TRUE,
                    !.result = compare_implementations(indices, probe.data, probe.concept,
                                                       probe.sdk_ids)]
    /\ UNCHANGED <<indices, index_dir, data_dir, tree, registry, pc, build, observed>>

NextCompare == CompareImplementations

SpecCompare == InitCompare /\ [][NextCompare]_vars

\* the names compare_implementations is to look up in an SDK's index: the
\* configured variants of the concept, or the concept when it has none
NamesFor(index, concept) ==
    IF concept \in DOMAIN index.concepts
    THEN {index.concepts[concept][i] : i \in DOMAIN index.concepts[concept]}
    ELSE {concept}

\* C15: for each SDK in the result, classes (resp. functions) holds exactly
\* the index's entries for those of the concept's configured variants that
\* are classes (resp. functions) of the index, or, when the index configures
\* no variants for the concept, for the concept itself.
C15_VariantsLookedUp ==
    probe.called =>
        \A sdk_id \in DOMAIN probe.result :
            LET index == indices[sdk_id]
                names == NamesFor(index, probe.concept)
            IN /\ probe.result[sdk_id].classes =
                      [name \in names \cap DOMAIN index.classes |-> index.classes[name]]
               /\ probe.result[sdk_id].functions =
                      [name \in names \cap DOMAIN index.functions |-> index.functions[name]]

\* "agent" compared in SDK "s", which configures the variants Widget, top and
\* helper for it: the class Widget and the function top are reported, helper,
\* which the index lacks, is not
C15_Witness ==
    /\ probe.called
    /\ probe.concept = "agent"
    /\ <<"s">> \in DOMAIN probe.result
    /\ DOMAIN probe.result[<<"s">>].classes = {"Widget"}
    /\ DOMAIN probe.result[<<"s">>].functions = {"top"}
    /\ "helper" \in NamesFor(indices[<<"s">>], "agent")

\* an SDK's index or documents give something for the concept
Yields(sdk_id) ==
    LET index == indices[sdk_id]
        names == NamesFor(index, probe.concept)
    IN \/ names \cap DOMAIN index.classes # {}
       \/ names \cap DOMAIN index.functions # {}
       \/ find_examples(indices, probe.data, sdk_id, NameText(probe.concept)) # EmptyDict

InitInitialize ==
    /\ registry = << <<"s">>, <<"x">>, <<"t">> >>
    /\ indices = EmptyDict
    /\ index_dir = EmptyDict
    /\ data_dir = [sdk_id \in SdkIds |-> EmptyDict]
    /\ tree = [sdk_id \in SdkIds |-> {}]
    /\ pc = [sdk_id \in SdkIds |-> "waiting"]
    /\ build = [sdk_id \in SdkIds |-> NoBuild]
    /\ observed = <<>>
    /\ probe = <<>>

\* ProviderFactory.create_provider raises ValueError
CreateProviderFails(sdk_id) ==
    /\ pc[sdk_id] = "waiting"
    /\ IsNext(sdk_id)
    /\ SdkConfig(sdk_id).source.type \notin ProviderTypes
    /\ pc' = [pc EXCEPT ![sdk_id] = "failed"]
    /\ UNCHANGED <<indices, index_dir, data_dir, tree, build, observed, registry, probe>>

\* provider.download raises
DownloadFails(sdk_id) ==
    /\ pc[sdk_id] = "waiting"
    /\ IsNext(sdk_id)
    /\ SdkConfig(sdk_id).source.type \in ProviderTypes
    /\ pc' = [pc EXCEPT ![sdk_id] = "failed"]
    /\ UNCHANGED <<indices, index_dir, data_dir, tree, build, observed, registry, probe>>

\* index_sdk raises outside its per-file try (the walk of the source tree)
IndexSdkFails(sdk_id) ==
    /\ pc[sdk_id] = "downloaded"
    /\ pc' = [pc EXCEPT ![sdk_id] = "failed"]
    /\ UNCHANGED <<indices, index_dir, data_dir, tree, build, observed, registry, probe>>

\* _save_sdk_files raises after it has written some of the documents
SaveSdkFilesFails(sdk_id) ==
    /\ pc[sdk_id] = "indexed"
    /\ \E written \in 0..Len(build[sdk_id].index[1].files) :
          data_dir' = [data_dir EXCEPT ![sdk_id] =
                          SaveFiles(@, {OriginalPath(sdk_id, f) : f \in tree[sdk_id]},
                                    SubSeq(build[sdk_id].index[1].files, 1, written))]
    /\ pc' = [pc EXCEPT ![sdk_id] = "failed"]
    /\ build' = [build EXCEPT ![sdk_id] = NoBuild]
    /\ UNCHANGED <<indices, index_dir, tree, observed, registry, probe>>

\* save_indices raises: before any record is written, or while it writes one
SaveIndicesFails(sdk_id) ==
    /\ pc[sdk_id] = "saved"
    /\ \/ index_dir' = index_dir
       \/ \E id \in DOMAIN indices : index_dir' = Put(index_dir, IndexFileName(id), Malformed)
    /\ pc' = [pc EXCEPT ![sdk_id] = "failed"]
    /\ build' = [build EXCEPT ![sdk_id] = NoBuild]
    /\ UNCHANGED <<indices, data_dir, tree, observed, registry, probe>>

\* the first step of _initialize_single_sdk(sdk_id), whatever its outcome
Attempt(sdk_id) == Download(sdk_id) \/ CreateProviderFails(sdk_id) \/ DownloadFails(sdk_id)

NextInitialize ==
    \/ \E sdk_id \in SdkIds : Download(sdk_id)
    \/ \E sdk_id \in SdkIds : CreateProviderFails(sdk_id)
    \/ \E sdk_id \in SdkIds : DownloadFails(sdk_id)
    \/ \E sdk_id \in SdkIds : IndexStart(sdk_id)
    \/ \E sdk_id \in SdkIds : IndexSdkFails(sdk_id)
    \/ \E sdk_id \in SdkIds : IndexFile(sdk_id)
    \/ \E sdk_id \in SdkIds : IndexInstall(sdk_id)
    \/ \E sdk_id \in SdkIds : SaveSdkFiles(sdk_id)
    \/ \E sdk_id \in SdkIds : SaveSdkFilesFails(sdk_id)
    \/ \E sdk_id \in SdkIds : SaveIndices(sdk_id)
    \/ \E sdk_id \in SdkIds : SaveIndicesFails(sdk_id)

SpecInitialize == InitInitialize /\ [][NextInitialize]_vars

\* the initialisation of an SDK has returned or has failed
Over(sdk_id) == pc[sdk_id] \in {"done", "failed"}

\* C20: the SDKs are initialised in registry order, and whenever the
\* initialisations of all SDKs before one are over, failed or not, that SDK's
\* initialisation has been attempted or can be attempted next.
C20_FailureDoesNotStopOthers ==
    \A j \in DOMAIN registry :
        /\ pc[registry[j]] # "waiting" => \A i \in 1..(j - 1) : Over(registry[i])
        /\ (pc[registry[j]] = "waiting" /\ \A i \in 1..(j - 1) : Over(registry[i]))
              => ENABLED Attempt(registry[j])

\* the first two SDKs failed, the first one after it was indexed, and the
\* third has been initialised to the end
C20_Witness ==
    /\ pc = [sdk_id \in SdkIds |->
                IF sdk_id = <<"t">> THEN "done" ELSE "failed"]
    /\ <<"s">> \in DOMAIN indices
    /\ <<"t">> \in DOMAIN indices
    /\ IndexFileName(<<"t">>) \in DOMAIN index_dir

(***************************************************************************)
(* Classes and their members                                               *)
(***************************************************************************)

\* every class declaration of a syntax tree, at whatever depth
RECURSIVE ClassDeclarations(_)
ClassDeclarations(node) ==
    (IF node.kind = "ClassDef" THEN {node} ELSE {})
        \cup UNION {ClassDeclarations(node.body[k]) : k \in DOMAIN node.body}

\* the members of a class as the claim describes them: the def and async def
\* statements directly in the class body, in declaration order
DirectMembers(node) ==
    LET IsDeclaration(item) == item.kind \in {"FunctionDef", "AsyncFunctionDef"}
        declared == SelectSeq(node.body, IsDeclaration)
    IN [k \in DOMAIN declared |-> [name |-> declared[k].name, line |-> declared[k].lineno]]

\* C24 as claimed: in a just built index, every class declared in a parsed
\* file, at whatever nesting depth, has a record among the file's classes
\* with its name and line, and every class record of the file lists as
\* methods exactly the functions, synchronous or asynchronous, declared
\* directly in that class's body, in declaration order with their lines (so
\* the methods of a nested class are listed for the nested class only).
C24_ClassesAndDirectMembers ==
    \A sdk_id \in SdkIds :
        pc[sdk_id] = "indexed" =>
            LET index == build[sdk_id].index[1] IN
            \A i \in DOMAIN index.files :
                SourceOf(sdk_id, index.files[i]).parses =>
                    LET declared == ClassDeclarations(SourceOf(sdk_id, index.files[i]).tree)
                        classes == index.files[i].classes
                    IN /\ \A node \in declared :
                             \E j \in DOMAIN classes :
                                 /\ classes[j].name = node.name
                                 /\ classes[j].line = node.lineno
                       /\ \A j \in DOMAIN classes :
                             \E node \in declared :
                                 /\ classes[j].name = node.name
                                 /\ classes[j].line = node.lineno
                                 /\ classes[j].methods = DirectMembers(node)

(***************************************************************************)
(* The served index after a failed initialisation                          *)
(***************************************************************************)

\* C25 as claimed: once the initialisation of an SDK has failed, at whatever
\* step, the store holds for that SDK what it held before the attempt.  Here
\* the store starts empty and each SDK is attempted once, so before the
\* attempt nothing is held for it and nothing may be held after the failure.
C25_FailedLeavesIndexUnchanged ==
    \A sdk_id \in SdkIds :
        pc[sdk_id] = "failed" => get_index(indices, sdk_id) = <<>>

(***************************************************************************)
(* The class whose source is returned                                      *)
(***************************************************************************)

\* a character an identifier can go on with
NameChar(c) ==
    \/ c \in DOMAIN LowerCase
    \/ \E upper \in DOMAIN LowerCase : LowerCase[upper] = c
    \/ c \in {"0", "1", "2", "3", "4", "5", "6", "7", "8", "9", "_"}

\* the line is the declaration of the class of exactly this name: after its
\* indentation it reads "class <name>" and the name ends there
DeclaresClass(line, class_name) ==
    LET text == LStrip(line)
        needle == ClassNeedle(class_name)
    IN /\ Len(text) >= Len(needle)
       /\ SubSeq(text, 1, Len(needle)) = needle
       /\ Len(text) > Len(needle) => ~NameChar(text[Len(needle) + 1])

\* C26 as claimed: when get_class_source is called for an indexed class whose
\* document exists, can be read and declares that class, the first line of
\* the returned text is a declaration of exactly that class, not of a class
\* whose name only begins with the requested name.
C26_ExactClassReturned ==
    (/\ ClassLinePresent
     /\ \E i \in DOMAIN ProbedLines : DeclaresClass(ProbedLines[i], probe.class_name))
        => /\ probe.result # <<>>
           /\ DeclaresClass(SplitAt(probe.result[1], "\n", <<>>)[1], probe.class_name)

(***************************************************************************)
(* Concurrent builds: index_sdk("s") and index_sdk("t") run at the same    *)
(* time on one SDKIndexer, each on its own source tree, their steps        *)
(* interleaved in any order.                                               *)
(***************************************************************************)

InitConcurrent ==
    /\ registry = << <<"s">>, <<"t">> >>
    /\ indices = EmptyDict
    /\ index_dir = EmptyDict
    /\ data_dir = [sdk_id \in SdkIds |-> EmptyDict]
    /\ tree \in [SdkIds -> BuildTrees]
    /\ pc = [sdk_id \in SdkIds |-> "downloaded"]
    /\ build = [sdk_id \in SdkIds |-> NoBuild]
    /\ observed = <<>>
    /\ probe = <<>>

NextConcurrent ==
    \/ \E sdk_id \in SdkIds : IndexStart(sdk_id)
    \/ \E sdk_id \in SdkIds : IndexFile(sdk_id)
    \/ \E sdk_id \in SdkIds : IndexInstall(sdk_id)

SpecConcurrent == InitConcurrent /\ [][NextConcurrent]_vars

\* the text starts with the prefix
StartsWith(text, prefix) ==
    Len(text) >= Len(prefix) /\ SubSeq(text, 1, Len(prefix)) = prefix

\* every file record of the index was made from a file under the SDK's own
\* source root, and every class and function entry names one of its files
OwnEntriesOnly(sdk_id, index) ==
    /\ index.sdk_id = sdk_id
    /\ \A i \in DOMAIN index.files :
          /\ StartsWith(index.files[i].original_path, SourcePath(sdk_id) \o <<"/">>)
          /\ \E file \in tree[sdk_id] :
                index.files[i].relative_path = file.relative_path
    /\ \A name \in DOMAIN index.classes : index.classes[name].file \in SavedNames(index)
    /\ \A name \in DOMAIN index.functions : index.functions[name].file \in SavedNames(index)

\* C23: whatever the interleaving of the two builds, once the build of an SDK
\* has returned the store maps that SDK to exactly the index a build running
\* alone produces from its source tree, both before and after the other
\* build installs its own (no insert is lost), and that index holds entries
\* of its own SDK's files only.
C23_ConcurrentBuildsIndependent ==
    \A sdk_id \in SdkIds :
        pc[sdk_id] = "indexed" =>
            /\ sdk_id \in DOMAIN indices
            /\ indices[sdk_id] = IndexOf(sdk_id, tree[sdk_id])
            /\ OwnEntriesOnly(sdk_id, indices[sdk_id])

\* both builds have returned and the store holds both indexes, each with
\* file records
C23_Witness ==
    /\ pc = [sdk_id \in SdkIds |-> "indexed"]
    /\ DOMAIN indices = SdkIds
    /\ \A sdk_id \in SdkIds : indices[sdk_id].files # <<>>
    /\ indices[<<"s">>] # indices[<<"t">>]

(***************************************************************************)
(* The per-SDK tools (_register_sdk_tools).  A tool call returns a value   *)
(* or raises to its caller; where the outcome depends on the platform, a   *)
(* tool has more than one possible outcome.                                *)
(***************************************************************************)

Returned(value) == [raised |-> FALSE, value |-> value]
Raised == [raised |-> TRUE, value |-> <<>>]

\* the longest file name the file system under "data" accepts (NAME_MAX)
NameMax == 255

\* (directory / name).exists(), for a name of one component; directory is
\* <<>> when it does not exist.  stat fails with ENAMETOOLONG for a name
\* longer than NameMax in an existing directory, an error that Path.exists
\* raises again (pathlib up to Python 3.12) or reports as False (later).
\* The saved names of the indexes considered here are short, so the exists()
\* calls of search_code and get_class_source do not meet this case.
PathExists(directory, name) ==
    IF directory = <<>> THEN {"no"}
    ELSE IF Len(name) > NameMax THEN {"raises", "no"}
    ELSE IF name \in DOMAIN directory[1] THEN {"yes"}
    ELSE {"no"}

\* self.data_dir / sdk_id
SdkDataDir(data, sdk_id) == IF sdk_id \in DOMAIN data THEN <<data[sdk_id]>> ELSE <<>>

list_files(store, sdk_id) ==
    LET index == get_index(store, sdk_id)
    IN IF index = <<>> THEN {Returned(<<>>)}
       ELSE {Returned([i \in DOMAIN index[1].files |-> index[1].files[i].saved_as])}

\* f"File not found: {filename}"
FileNotFound(filename) ==
    <<"F", "i", "l", "e", " ", "n", "o", "t", " ", "f", "o", "u", "n", "d", ":", " ">> \o filename

\* "Error reading file: ..."
SourceReadError == <<"E", "r", "r", "o", "r", " ", "r", "e", "a", "d", "i", "n", "g", " ", "f", "i", "l", "e">>

get_source(data, sdk_id, filename) ==
    {IF exists = "raises" THEN Raised
     ELSE IF exists = "no" THEN Returned(FileNotFound(filename))
     ELSE IF ~data[sdk_id][filename].readable THEN Returned(SourceReadError)
     ELSE Returned(Content(data[sdk_id][filename])) :
        exists \in PathExists(SdkDataDir(data, sdk_id), filename)}

\* the search_code tool passes case_sensitive and no other option
search_code_tool(store, data, sdk_id, query, case_sensitive) ==
    {Returned(search_code(store, data, sdk_id, query,
                          Put(EmptyDict, "case_sensitive", case_sensitive)))}

\* f"Class {class_name} not found in {sdk_id}"
ClassNotFoundIn(class_name, sdk_id) ==
    <<"C", "l", "a", "s", "s", " ">> \o NameText(class_name)
        \o <<" ", "n", "o", "t", " ", "f", "o", "u", "n", "d", " ", "i", "n", " ">> \o sdk_id

\* result or f"Class ... not found in ...": None and the empty text are falsy
get_class(store, data, sdk_id, class_name) ==
    LET result == get_class_source(store, data, sdk_id, class_name)
    IN {Returned(IF result = <<>> \/ result[1] = <<>>
                 THEN ClassNotFoundIn(class_name, sdk_id)
                 ELSE result[1])}

find_examples_tool(store, data, sdk_id, topic) ==
    {Returned(find_examples(store, data, sdk_id, topic))}

(***************************************************************************)
(* Tool calls on their own: the tools of the SDKs "s" and "t", none, one   *)
(* or both of them indexed, with or without their documents.               *)
(***************************************************************************)

ToolStores == {EmptyDict} \cup ComparedStores

\* a name longer than the file system accepts
LongName == [i \in 1..(NameMax + 1) |-> "x"]

\* the file names asked of get_source: a document of "s", a name of no
\* document, a name of NameMax characters and a longer one
FileNames ==
    {_generate_saved_name(FileAB.relative_path, <<"s">>), <<"n", ".", "m", "d">>,
     SubSeq(LongName, 1, NameMax), LongName}

NoCall == [tool |-> "none", sdk_id |-> <<>>, argument |-> <<>>, outcome |-> Returned(<<>>)]

InitTools ==
    /\ ServerIdle
    /\ indices \in ToolStores
    /\ \E data \in ComparedData : probe = [data |-> data, call |-> NoCall]

Called(tool, sdk_id, argument, outcome) ==
    /\ probe' = [probe EXCEPT !.call = [tool |-> tool, sdk_id |-> sdk_id,
                                        argument |-> argument, outcome |-> outcome]]
    /\ UNCHANGED <<indices, index_dir, data_dir, tree, registry, pc, build, observed>>

ListFiles ==
    \E sdk_id \in SdkIds :
        \E outcome \in list_files(indices, sdk_id) :
            Called("list_files", sdk_id, <<>>, outcome)

GetSource ==
    \E sdk_id \in SdkIds, filename \in FileNames :
        \E outcome \in get_source(probe.data, sdk_id, filename) :
            Called("get_source", sdk_id, filename, outcome)

SearchCodeTool ==
    \E sdk_id \in SdkIds, query \in Queries, case_sensitive \in BOOLEAN :
        \E outcome \in search_code_tool(indices, probe.data, sdk_id, query, case_sensitive) :
            Called("search_code", sdk_id, <<query, case_sensitive>>, outcome)

GetClass ==
    \E sdk_id \in SdkIds, class_name \in {"Widget", "Nope"} :
        \E outcome \in get_class(indices, probe.data, sdk_id, class_name) :
            Called("get_class", sdk_id, class_name, outcome)

FindExamplesTool ==
    \E sdk_id \in SdkIds, topic \in Topics :
        \E outcome \in find_examples_tool(indices, probe.data, sdk_id, topic) :
            Called("find_examples", sdk_id, topic, outcome)

NextTools ==
    \/ ListFiles
    \/ GetSource
    \/ SearchCodeTool
    \/ GetClass
    \/ FindExamplesTool

SpecTools == InitTools /\ [][NextTools]_vars

\* the document the call asks for, or needs, is not in the data directory
DocumentAbsent(sdk_id, name) ==
    sdk_id \notin DOMAIN probe.data \/ name \notin DOMAIN probe.data[sdk_id]

\* C21 as claimed: a tool call for an SDK without an index, or for a document
\* that is absent, does not raise: list_files returns the empty sequence
\* when there is no index, get_source the "File not found" message when the
\* document is absent, search_code and find_examples the empty mapping when
\* there is no index, and get_class the "not found" message when there is
\* no index or the document of the class is absent.
C21_AbsentNeverRaises ==
    LET call == probe.call
        no_index == get_index(indices, call.sdk_id) = <<>>
    IN /\ (call.tool = "list_files" /\ no_index)
             => call.outcome = Returned(<<>>)
       /\ (call.tool = "get_source" /\ DocumentAbsent(call.sdk_id, call.argument))
             => call.outcome = Returned(FileNotFound(call.argument))
       /\ (call.tool \in {"search_code", "find_examples"} /\ no_index)
             => call.outcome = Returned(EmptyDict)
       /\ (call.tool = "get_class"
              /\ (no_index
                    \/ find_class(indices, call.sdk_id, call.argument) = <<>>
                    \/ DocumentAbsent(call.sdk_id,
                                      find_class(indices, call.sdk_id, call.argument)[1].file)))
             => call.outcome = Returned(ClassNotFoundIn(call.argument, call.sdk_id))

(***************************************************************************)
(* The search engine's operations as reads of the index store: any         *)
(* sequence of calls, each with what it leaves in the store.               *)
(***************************************************************************)

\* a variant of the lookup that enters an empty index for an unknown SDK
IndicesAfterGetIndex_SetDefault(store, sdk_id) ==
    IF sdk_id \in DOMAIN store THEN store ELSE Put(store, sdk_id, EmptyDict)

\* the store after get_index(sdk_id): self.indices.get(sdk_id) enters nothing
IndicesAfterGetIndex(store, sdk_id) == store

\* the store after get_index was called for each of the identifiers in turn
RECURSIVE IndicesAfterReads(_, _)
IndicesAfterReads(store, sdk_ids) ==
    IF sdk_ids = <<>> THEN store
    ELSE IndicesAfterReads(IndicesAfterGetIndex(store, Head(sdk_ids)), Tail(sdk_ids))

\* search_all_sdks: the non-empty results of search_code for each indexed SDK
search_all_sdks(store, data, query, options) ==
    LET found == {sdk_id \in DOMAIN store :
                    search_code(store, data, sdk_id, query, options) # EmptyDict}
    IN [sdk_id \in found |-> search_code(store, data, sdk_id, query, options)]

MaxCalls == 2

ReadOptions == {EmptyDict, Put(EmptyDict, "regex", TRUE)}

\* the texts searched for, the concepts compared and the identifier lists
\* passed
ReadQueries == { <<"t", "o", "p">>, <<"(">> }
ReadConcepts == {"agent", "top"}
ReadIdLists ==
    { <<>>, << <<"s">> >>, << <<"t">>, <<"s">> >>, << <<"n">>, <<"t">> >> }

InitReads ==
    /\ ServerIdle
    /\ indices \in ToolStores
    /\ \E data \in ComparedData :
          probe = [data |-> data, before |-> indices, calls |-> 0, result |-> <<>>]

\* a call returns: its result is recorded and the store is what the lookups
\* of the call left
Read(result, sdk_ids) ==
    /\ probe.calls < MaxCalls
    /\ probe' = [probe EXCEPT !.calls = @ + 1, !.result = result]
    /\ indices' = IndicesAfterReads(indices, sdk_ids)
    /\ UNCHANGED <<index_dir, data_dir, tree, registry, pc, build, observed>>

ReadSearchCode ==
    \E sdk_id \in RequestedIds, query \in ReadQueries, options \in ReadOptions :
        Read(search_code(indices, probe.data, sdk_id, query, options), <<sdk_id>>)

\* search_all_sdks looks up the identifiers the store holds, in its order
ReadSearchAllSdks ==
    \E query \in ReadQueries, options \in ReadOptions, order \in Orders(DOMAIN indices) :
        Read(search_all_sdks(indices, probe.data, query, options), order)

ReadFindClass ==
    \E sdk_id \in RequestedIds, class_name \in {"Widget", "Nope"} :
        Read(find_class(indices, sdk_id, class_name), <<sdk_id>>)

ReadFindFunction ==
    \E sdk_id \in RequestedIds, function_name \in {"top", "Nope"} :
        Read(find_function(indices, sdk_id, function_name), <<sdk_id>>)

ReadGetClassSource ==
    \E sdk_id \in RequestedIds, class_name \in {"Widget", "Nope"} :
        Read(get_class_source(indices, probe.data, sdk_id, class_name), <<sdk_id>>)

ReadFindExamples ==
    \E sdk_id \in RequestedIds, topic \in ReadQueries :
        Read(find_examples(indices, probe.data, sdk_id, topic), <<sdk_id>>)

\* compare_implementations looks up the requested identifiers that the store
\* holds (line 189 skips the others)
ReadCompareImplementations ==
    \E concept \in ReadConcepts, sdk_ids \in ReadIdLists :
        LET Held(sdk_id) == sdk_id \in DOMAIN indices
        IN Read(compare_implementations(indices, probe.data, concept, sdk_ids),
                SelectSeq(sdk_ids, Held))

NextReads ==
    \/ ReadSearchCode
    \/ ReadSearchAllSdks
    \/ ReadFindClass
    \/ ReadFindFunction
    \/ ReadGetClassSource
    \/ ReadFindExamples
    \/ ReadCompareImplementations

SpecReads == InitReads /\ [][NextReads]_vars

\* C22: after any sequence of calls of the search engine's operations the
\* index store is what it was before the first call: the same identifiers,
\* each mapped to an equal index.
C22_ReadsLeaveStoreUnchanged == indices = probe.before

\* two calls have returned, the second with a result that is not empty, on a
\* store that holds an index
C22_Witness ==
    /\ probe.calls = MaxCalls
    /\ probe.result # <<>>
    /\ DOMAIN indices # {}
    /\ indices = probe.before

====
